---------------------------- MODULE Spec2Model ----------------------------
(***************************************************************************)
(* A model of expectacle (src/expectacle.js): the expectation objects, the *)
(* matcher dispatch (applyMatcher / applyPromisedMatcher), the failure     *)
(* object (ExpectationError) and expect.fail.                              *)
(*                                                                         *)
(* JavaScript values are records with an id field; a primitive is named by *)
(* its literal ("1", "'a'", "NaN"), an object by a name of its identity.   *)
(* Error objects are records that also carry their fields.                 *)
(***************************************************************************)
EXTENDS Integers, Sequences, FiniteSets, TLC

VARIABLES
  protos,     \* the four prototypes: kind -> method name -> installed method
  heap,       \* the expectation objects of the expression under evaluation
  promises,   \* the promises of the expression under evaluation
  cur,        \* the heap index of the object the expression holds (0: none)
  result,     \* what the last call returned or threw
  log,        \* the checker invocations of the chain, in order
  lastCall,   \* the last call or property access of the test
  received,   \* what the checker received in its last synchronous call
  ncalls,     \* the matcher calls made in the chain
  registered, \* history: name -> the checker of its last registration
  aliased,    \* history: alias -> the name it was last made an alias of
  older,      \* history: the objects that existed at the last registration
  cache,      \* the knownTypes object: class string -> type tag
  typed       \* history: the typeOf calls made on the cache, in order

vars == <<protos, heap, promises, cur, result, log, lastCall, received,
          ncalls, registered, aliased, older, cache, typed>>

-----------------------------------------------------------------------------
(* Bounds *)

MaxChain == 2      \* matcher calls in one chain

MaxPromises == 2   \* promises derived by matcher calls in one expression

MaxTyped == 3      \* typeOf calls made on one cache

-----------------------------------------------------------------------------
(* Values *)

V(s) == [id |-> s]
Str(s) == [id |-> "string", s |-> s]

undefined == V("undefined")
null == V("null")
true == V("true")
false == V("false")
Bool(b) == IF b THEN true ELSE false

NULL_VALUE == V("NULL_VALUE")

\* an object literal { k1: v1, ... }; ref tells it from the other objects,
\* entries are its own properties as <<key, value>> pairs, in the order they
\* were written
Obj(ref, entries) == [id |-> "object", ref |-> ref, entries |-> entries]

\* an array literal [v1, ...]
Arr(ref, items) == [id |-> "array", ref |-> ref, items |-> items]

\* the arguments object of a call with the arguments items
Arguments(ref, items) == [id |-> "arguments", ref |-> ref, items |-> items]

IsError(v) == v.id = "error"
IsString(v) == v.id = "string"

\* Object.prototype.toString.call(item), without "[object " and "]"
ClassOf(item) ==
  CASE IsError(item) -> "Error"
    [] IsString(item) -> "String"
    [] item.id = "text" -> "String"
    [] item.id \in {"NaN", "0", "1"} -> "Number"
    [] item.id \in {"true", "false"} -> "Boolean"
    [] item.id \in {"fnOk", "fnBoom", "fnThrowsA", "Error", "Object"} ->
         "Function"
    [] item.id = "asyncFn" -> "AsyncFunction"
    [] item.id \in {"/o/", "/z/"} -> "RegExp"
    [] item.id = "array" -> "Array"
    [] item.id = "arguments" -> "Arguments"
    [] OTHER -> "Object"

knownTypes ==
  [c \in {"Arguments", "Array", "Boolean", "Date", "Function", "Number",
          "Object", "RegExp", "String"} |->
     CASE c = "Arguments" -> "arguments"
       [] c = "Array" -> "array"
       [] c = "Boolean" -> "boolean"
       [] c = "Date" -> "date"
       [] c = "Function" -> "function"
       [] c = "Number" -> "number"
       [] c = "Object" -> "object"
       [] c = "RegExp" -> "regexp"
       [] c = "String" -> "string"]

\* str.replace(typeMatcher, '$1').toLowerCase(), for the class strings that
\* are not in knownTypes
LowerClass(c) ==
  CASE c = "Error" -> "error"
    [] c = "AsyncFunction" -> "asyncfunction"
    [] OTHER -> "unknown"

\* the tag does not depend on what the calls before have cached (C25): the
\* checkers use typeOf as a function, and the cache is state of TypeSpec
typeOf(item) ==
  IF item = null THEN "null"
  ELSE IF item = undefined THEN "undefined"
  ELSE IF ClassOf(item) \in DOMAIN knownTypes THEN knownTypes[ClassOf(item)]
  ELSE LowerClass(ClassOf(item))

\* a typeOf that caches the class string itself on a miss
typeOf_raw(known, item) ==
  IF item = null THEN [value |-> "null", knownTypes |-> known]
  ELSE IF item = undefined THEN [value |-> "undefined", knownTypes |-> known]
  ELSE IF ClassOf(item) \in DOMAIN known
  THEN [value |-> known[ClassOf(item)], knownTypes |-> known]
  ELSE [value |-> LowerClass(ClassOf(item)),
        knownTypes |-> [c \in DOMAIN known \cup {ClassOf(item)} |->
                          IF c = ClassOf(item) THEN c ELSE known[c]]]

\* typeOf(item) on the cache known: the tag it returns and the cache it
\* leaves; the class string [object C] is written C
typeOf_cached(known, item) ==
  IF item = null THEN [value |-> "null", knownTypes |-> known]
  ELSE IF item = undefined THEN [value |-> "undefined", knownTypes |-> known]
  ELSE LET str == ClassOf(item)
           type == LowerClass(str)
       IN  IF str \in DOMAIN known
           THEN [value |-> known[str], knownTypes |-> known]
           ELSE [value |-> type,
                 knownTypes |-> [c \in DOMAIN known \cup {str} |->
                                   IF c = str THEN type ELSE known[c]]]

\* ToBoolean
Truthy(v) ==
  /\ v.id \notin {"undefined", "null", "NaN", "0", "false"}
  /\ ~(IsString(v) /\ v.s = "")

\* a === b
StrictEquals(a, b) == a = b /\ a.id # "NaN"

\* o[k], undefined when o has no property k
Opt(o, k) == IF k \in DOMAIN o THEN o[k] ELSE undefined

\* String(v)
ToStr(v) ==
  CASE IsString(v) -> v.s
    [] IsError(v) -> v.name \o ": ..."
    [] v.id = "fnOk" -> "function () {}"
    [] v.id = "fnBoom" -> "function () { throw new Error('boom'); }"
    [] v.id = "fnThrowsA" -> "function () { throw 'a'; }"
    [] v.id = "Error" -> "function Error() { [native code] }"
    [] v.id = "Object" -> "function Object() { [native code] }"
    [] v.id = "asyncFn" -> "async function (resolve) { resolve(1); }"
    [] v.id \in {"obj1", "obj2", "NULL_VALUE"} -> "[object Object]"
    [] OTHER -> v.id

\* isNaN(v): whether ToNumber(v) is NaN
IsNaN(v) ==
  CASE IsString(v) -> v.s # ""
    [] v.id \in {"null", "0", "1", "true", "false"} -> FALSE
    [] OTHER -> TRUE

\* whether s contains an o, over the strings of the model
HasO(s) ==
  s \in {"boom", "[object Object]", "function () {}",
         "function () { throw new Error('boom'); }",
         "function () { throw 'a'; }", "function Error() { [native code] }",
         "function Object() { [native code] }",
         "/o/", "Error: ...", "TypeError: ...", "ExpectationError: ...",
         "function",
         "toStartWith requires a prefix argument."}

\* re.test(s), for the regular expressions /o/ and /z/; no string of the
\* model contains a z
RegExpTest(re, s) == IF re.id = "/o/" THEN HasO(s) ELSE FALSE

\* s.indexOf(p) == 0, over the strings of the model
StartsWith(s, p) ==
  \/ p = ""
  \/ s = p
  \/ <<s, p>> \in {<<"boom", "b">>, <<"abc", "a">>}

-----------------------------------------------------------------------------
(* Text.  Source text that the program builds at run time is a sequence of  *)
(* one-character strings.                                                   *)

Upper == {"A", "B", "H", "I", "L", "M", "N", "O", "S", "T", "U", "W"}

toLowerCase(c) ==
  CASE c = "A" -> "a" [] c = "B" -> "b" [] c = "H" -> "h" [] c = "I" -> "i"
    [] c = "L" -> "l"
    [] c = "M" -> "m" [] c = "N" -> "n" [] c = "O" -> "o" [] c = "S" -> "s"
    [] c = "T" -> "t" [] c = "U" -> "u" [] c = "W" -> "w" [] OTHER -> c

\* the characters of the method names the model uses
Chars(name) ==
  CASE name = "toBe" -> <<"t","o","B","e">>
    [] name = "toBeNaN" -> <<"t","o","B","e","N","a","N">>
    [] name = "toThrow" -> <<"t","o","T","h","r","o","w">>
    [] name = "toMatch" -> <<"t","o","M","a","t","c","h">>
    [] name = "toStartWith" ->
         <<"t","o","S","t","a","r","t","W","i","t","h">>
    [] name = "toBeString" -> <<"t","o","B","e","S","t","r","i","n","g">>
    [] name = "toBeAnInstanceOf" ->
         <<"t","o","B","e","A","n","I","n","s","t","a","n","c","e","O","f">>
    [] name = "toBeLike" -> <<"t","o","B","e","L","i","k","e">>
    [] name = "toHaveShape" ->
         <<"t","o","H","a","v","e","S","h","a","p","e">>

\* str.replace(/[A-Z]/g, m => ' ' + m.toLowerCase())
RECURSIVE SpaceCapitals(_)
SpaceCapitals(s) ==
  IF s = <<>> THEN <<>>
  ELSE IF Head(s) \in Upper
       THEN <<" ", toLowerCase(Head(s))>> \o SpaceCapitals(Tail(s))
       ELSE <<Head(s)>> \o SpaceCapitals(Tail(s))

\* \W of a regular expression, over the characters that occur
NonWord(c) == c = " "

\* str.replace(/\Wna\Wn/g, ' NaN')
RECURSIVE FixNaN(_)
FixNaN(s) ==
  IF Len(s) < 5 THEN s
  ELSE IF NonWord(s[1]) /\ s[2] = "n" /\ s[3] = "a" /\ NonWord(s[4])
          /\ s[5] = "n"
       THEN <<" ", "N", "a", "N">> \o FixNaN(SubSeq(s, 6, Len(s)))
       ELSE <<Head(s)>> \o FixNaN(Tail(s))

makeHumanReadable(str) == FixNaN(SpaceCapitals(str))

\* JSON.stringify(value, replacer)
RECURSIVE Json(_)

\* the items of an array in JSON.stringify
RECURSIVE JsonItems(_)
JsonItems(items) ==
  IF items = <<>> THEN ""
  ELSE Json(Head(items))
       \o (IF Len(items) > 1 THEN "," \o JsonItems(Tail(items)) ELSE "")

\* the properties of an object in JSON.stringify
RECURSIVE JsonEntries(_)
JsonEntries(entries) ==
  IF entries = <<>> THEN ""
  ELSE "\"" \o Head(entries)[1] \o "\":" \o Json(Head(entries)[2])
       \o (IF Len(entries) > 1 THEN "," \o JsonEntries(Tail(entries))
           ELSE "")

Json(value) ==
  CASE IsError(value) -> "{\"name\":\"" \o value.name \o "\"}"
    [] value.id = "array" -> "[" \o JsonItems(value.items) \o "]"
    [] value.id = "object" -> "{" \o JsonEntries(value.entries) \o "}"
    [] value.id = "arguments" ->
         "{" \o JsonEntries([i \in DOMAIN value.items |->
                               <<(<<"0", "1", "2", "3">>)[i],
                                 value.items[i]>>])
             \o "}"
    [] value.id = "shape" -> "\"" \o value.name \o "\""
    [] IsString(value) -> "\"" \o value.s \o "\""
    [] value.id = "text" -> "\"...\""
    [] value.id \in {"undefined", "NaN"} -> "\"" \o value.id \o "\""
    [] value.id \in {"null", "0", "1", "true", "false"} -> value.id
    [] ClassOf(value) \in {"Function", "RegExp"} ->
         "\"" \o ToStr(value) \o "\""
    [] OTHER -> "{}"

\* an element for Array.prototype.join: '' for undefined and null
JoinItem(v) == IF v \in {undefined, null} THEN "" ELSE ToStr(v)

\* ExpectationError.prototype.toString; message is the message at the time
\* of the call
toString(err) ==
  IF Truthy(err.message)
  THEN [id |-> "named", name |-> err.name, message |-> err.message]
  ELSE [id |-> "text",
        parts |-> <<"ExpectationError: Expected",
                    JoinItem(err.description),
                    Json(err.actual),
                    IF err.operator = undefined THEN <<>>
                    ELSE err.operator.chars,
                    IF err.expected # NULL_VALUE THEN Json(err.expected)
                    ELSE "">>]

\* new ExpectationError(options); this.message is Error.prototype.message,
\* the empty string, until the constructor assigns it
ExpectationError(options) ==
  LET this == [id |-> "error", name |-> "ExpectationError",
               operator |-> Opt(options, "operator"),
               actual |-> Opt(options, "actual"),
               expected |-> Opt(options, "expected"),
               description |-> Opt(options, "description"),
               message |-> Str("")]
  IN  [this EXCEPT !.message =
         IF Truthy(Opt(options, "message")) THEN options.message
         ELSE toString(this)]

\* an error of the runtime: a TypeError, or the Error a function throws
NativeError(name, message) ==
  [id |-> "error", name |-> name, operator |-> undefined,
   actual |-> undefined, expected |-> undefined, description |-> undefined,
   message |-> message]

\* an objectAssign that keeps the properties the target already has
objectAssign_keep(target, source) ==
  [k \in DOMAIN target \cup DOMAIN source |->
     IF k \in DOMAIN target THEN target[k] ELSE source[k]]

objectAssign(target, source) ==
  [k \in DOMAIN target \cup DOMAIN source |->
     IF k \in DOMAIN source THEN source[k] ELSE target[k]]

-----------------------------------------------------------------------------
(* Deep comparison *)

\* typeof v
typeof(v) ==
  CASE v = undefined -> "undefined"
    [] ClassOf(v) \in {"Function", "AsyncFunction"} -> "function"
    [] ClassOf(v) \in {"String", "Number", "Boolean"} ->
         knownTypes[ClassOf(v)]
    [] OTHER -> "object"

\* the characters of a string, over the strings that are compared deeply
Characters(s) == IF s = "" THEN <<>> ELSE <<s>>

\* String(i), for the index i of the item at position i + 1
IndexKey(n) ==
  CASE n = 1 -> "0" [] n = 2 -> "1" [] n = 3 -> "2" [] n = 4 -> "3"

\* Object.keys(o), as a set; o is not undefined or null
Keys(o) ==
  CASE o.id = "object" -> {o.entries[i][1] : i \in DOMAIN o.entries}
    [] o.id \in {"array", "arguments"} ->
         {IndexKey(i) : i \in DOMAIN o.items}
    [] IsString(o) -> {IndexKey(i) : i \in DOMAIN Characters(o.s)}
    [] OTHER -> {}

\* o[key]; o is not undefined or null
Get(o, key) ==
  CASE o.id = "object" /\ key \in Keys(o) ->
         o.entries[CHOOSE i \in DOMAIN o.entries :
                     o.entries[i][1] = key][2]
    [] o.id \in {"array", "arguments"} /\ key \in Keys(o) ->
         o.items[CHOOSE i \in DOMAIN o.items : IndexKey(i) = key]
    [] IsString(o) /\ key \in Keys(o) ->
         Str(Characters(o.s)[CHOOSE i \in DOMAIN Characters(o.s) :
                               IndexKey(i) = key])
    [] OTHER -> undefined

\* o.prototype: the prototype object of a function, an own property named
\* prototype, or undefined
Prototype(o) ==
  IF ClassOf(o) = "Function" THEN [id |-> "prototype", of |-> o.id]
  ELSE Get(o, "prototype")

\* Array.prototype.slice.call(a), a new array
slice(a) == Arr(0 - a.ref, a.items)

RECURSIVE deepEqual(_, _)

RECURSIVE objEquiv(_, _)
objEquiv(a, b) ==
  IF a \in {undefined, null} \/ b \in {undefined, null} THEN FALSE
  ELSE IF ~StrictEquals(Prototype(a), Prototype(b)) THEN FALSE
  ELSE IF typeOf(a) = "arguments"
  THEN IF ~StrictEquals(Bool(~Truthy(Str(typeOf(b)))), Str("arguments"))
       THEN FALSE
       ELSE deepEqual(slice(a), slice(b))
  ELSE /\ Keys(a) = Keys(b)
       /\ \A key \in Keys(a) : deepEqual(Get(a, key), Get(b, key))

\* no value of the model is a Date; two regular expressions are compared by
\* their source and flags
deepEqual(actual, expected) ==
  IF StrictEquals(actual, expected) THEN TRUE
  ELSE IF ClassOf(actual) = "RegExp" /\ ClassOf(expected) = "RegExp"
  THEN actual.id = expected.id
  ELSE IF typeof(actual) # "object" /\ typeof(expected) # "object"
  THEN StrictEquals(actual, expected)
  ELSE objEquiv(actual, expected)

-----------------------------------------------------------------------------
(* Shapes.  The checker of a shape is a record that tells which closure it  *)
(* is and holds the variables the closure captured.                         *)

\* new Shape(name, checker)
Shape(name, checker) == [id |-> "shape", name |-> name, checker |-> checker]

\* Shape.isShape(shape)
isShape(shape) == shape.id = "shape"

knownInternalShapes ==
  <<"Arguments", "Boolean", "Date", "Function", "Null", "Number", "RegExp",
    "String", "Undefined">>

\* name.toLowerCase(), for the names of knownInternalShapes
LowerName(name) ==
  CASE name = "Arguments" -> "arguments" [] name = "Boolean" -> "boolean"
    [] name = "Date" -> "date" [] name = "Function" -> "function"
    [] name = "Null" -> "null" [] name = "Number" -> "number"
    [] name = "RegExp" -> "regexp" [] name = "String" -> "string"
    [] name = "Undefined" -> "undefined"

\* what InternalShapes[name]() returns after addTypeShape(name)
addTypeShape(name) ==
  Shape(name, [of |-> "type", type |-> LowerName(name)])

\* array.join(sep), for an array of strings
RECURSIVE join(_, _)
join(array, sep) ==
  IF array = <<>> THEN ""
  ELSE Head(array)
       \o (IF Len(array) > 1 THEN sep \o join(Tail(array), sep) ELSE "")

InternalShapes_Literal(value) ==
  Shape("Literal.<" \o Json(value) \o ">",
        [of |-> "Literal", value |-> value])

\* the index of the first error in a sequence of construction results, one
\* past its end when there is none
FirstError(subs) ==
  IF \E i \in DOMAIN subs : IsError(subs[i])
  THEN CHOOSE i \in DOMAIN subs :
         IsError(subs[i]) /\ \A j \in 1..(i - 1) : ~IsError(subs[j])
  ELSE Len(subs) + 1

\* the own enumerable properties of a descriptor; the descriptors of the model
\* are object literals and shapes
OwnEntries(descriptor) ==
  CASE descriptor.id = "object" -> descriptor.entries
    [] isShape(descriptor) ->
         <<<<"name", Str(descriptor.name)>>, <<"checker", V("fnOk")>>>>
    [] OTHER -> <<>>

\* the switch on typeOf(shape) that turns an entry of a descriptor into a
\* shape; the result is the Error a nested construction throws
RECURSIVE Coerce(_)

\* the result is the shape, or the Error the construction throws; the types
\* of the checker is the caller's array as the loop leaves it, with the
\* entries that are objects and arrays replaced by their shapes
InternalShapes_ArrayStructure(types) ==
  LET build(items, subs, stop) ==
        IF stop <= Len(subs) THEN subs[stop]
        ELSE Shape("Array.["
                     \o join([i \in DOMAIN subs |-> subs[i].name], ", ")
                     \o "]",
                   [of |-> "ArrayStructure",
                    types |-> [i \in DOMAIN subs |->
                                 IF typeOf(items[i]) \in {"object", "array"}
                                 THEN subs[i] ELSE items[i]]])
      loop(items, subs) == build(items, subs, FirstError(subs))
  IN  IF typeOf(types) # "array"
      THEN NativeError("Error",
                       Str("Array Literal expects an array parameter."))
      ELSE IF Len(types.items) = 0
      THEN NativeError("Error", Str("Empty types parameter"))
      ELSE loop(types.items,
                [i \in DOMAIN types.items |-> Coerce(types.items[i])])

\* the result is the shape, or the Error the construction throws
InternalShapes_Object(descriptor) ==
  LET build(entries, subs, stop) ==
        IF stop <= Len(subs) THEN subs[stop]
        ELSE Shape("Object.{"
                     \o join([i \in DOMAIN subs |->
                                entries[i][1] \o ":" \o subs[i].name], ", ")
                     \o "}",
                   [of |-> "Object",
                    shapes |-> [i \in DOMAIN subs |->
                                  [key |-> entries[i][1],
                                   checker |-> subs[i]]]])
      loop(entries, subs) == build(entries, subs, FirstError(subs))
      for(entries) ==
        loop(entries, [i \in DOMAIN entries |-> Coerce(entries[i][2])])
  IN  for(OwnEntries(IF Truthy(descriptor) THEN descriptor
                     ELSE Obj(0, <<>>)))

Coerce(shape) ==
  CASE typeOf(shape) = "object" ->
         IF isShape(shape) THEN shape ELSE InternalShapes_Object(shape)
    [] typeOf(shape) = "array" -> InternalShapes_ArrayStructure(shape)
    [] OTHER -> InternalShapes_Literal(shape)

\* the result is the shape, or the Error the construction throws
InternalShapes_Array(subType) ==
  LET build(_subType) ==
        IF IsError(_subType) THEN _subType
        ELSE Shape(IF Truthy(_subType)
                   THEN "Array.<" \o _subType.name \o ">" ELSE "Array",
                   [of |-> "Array", _subType |-> _subType])
  IN  IF typeOf(subType) \in {"undefined", "error"}
      THEN Shape(IF typeOf(subType) = "undefined" THEN "Array"
                 ELSE "Array.<" \o InternalShapes_Literal(subType).name
                      \o ">",
                 [of |-> "Array",
                  _subType |-> IF typeOf(subType) = "undefined" THEN subType
                               ELSE InternalShapes_Literal(subType)])
      ELSE build(Coerce(subType))

\* object[i] of an array, for the index of position i
ItemAt(object, i) ==
  IF i \in DOMAIN object.items THEN object.items[i] ELSE undefined

RECURSIVE compareShape(_, _)

\* the checker of InternalShapes.Array
ArrayChecker(_subType, object) ==
  IF typeOf(object) # "array" THEN FALSE
  ELSE IF Truthy(_subType)
  THEN \A i \in DOMAIN object.items :
         compareShape(_subType, object.items[i]) = true
  ELSE TRUE

\* the checker of InternalShapes.ArrayStructure
ArrayStructureChecker(types, object) ==
  IF typeOf(object) # "array" THEN FALSE
  ELSE \A i \in DOMAIN types :
         compareShape(types[i], ItemAt(object, i)) = true

\* an Object checker that skips the keys the candidate does not have
ObjectChecker_present(shapes, object) ==
  IF typeOf(object) # "object" THEN FALSE
  ELSE \A i \in DOMAIN shapes :
         shapes[i].key \in Keys(object) =>
           compareShape(shapes[i].checker, Get(object, shapes[i].key)) = true

\* the checker of InternalShapes.Object
ObjectChecker(shapes, object) ==
  IF typeOf(object) # "object" THEN FALSE
  ELSE \A i \in DOMAIN shapes :
         compareShape(shapes[i].checker, Get(object, shapes[i].key)) = true

\* shape.checker(object)
Check(checker, object) ==
  CASE checker.of = "type" -> typeOf(object) = checker.type
    [] checker.of = "Literal" -> StrictEquals(checker.value, object)
    [] checker.of = "Array" -> ArrayChecker(checker._subType, object)
    [] checker.of = "ArrayStructure" ->
         ArrayStructureChecker(checker.types, object)
    [] checker.of = "Object" -> ObjectChecker(checker.shapes, object)

\* the result is true, false, or the Error that building a shape from a raw
\* descriptor throws
compareShape(shape, object) ==
  IF ~Truthy(shape) THEN false
  ELSE IF isShape(shape) THEN Bool(Check(shape.checker, object))
  ELSE IF typeOf(shape) \in {"object", "array"}
  THEN LET with(built) ==
             IF IsError(built) THEN built ELSE compareShape(built, object)
       IN  with(IF typeOf(shape) = "object"
                THEN InternalShapes_Object(shape)
                ELSE InternalShapes_ArrayStructure(shape))
  ELSE false

\* a descriptor after a shape was built from it: the entries of an array
\* that are objects and arrays are its shapes, and so for every array below
\* an object; construction stops at the first entry that throws
RECURSIVE Mutated(_)
Mutated(descriptor) ==
  LET array(items, subs, stop) ==
        Arr(descriptor.ref,
            [i \in DOMAIN items |->
               IF i < stop /\ typeOf(items[i]) \in {"object", "array"}
               THEN subs[i]
               ELSE IF i = stop THEN Mutated(items[i])
               ELSE items[i]])
      object(entries, stop) ==
        Obj(descriptor.ref,
            [i \in DOMAIN entries |->
               IF i <= stop
               THEN <<entries[i][1], Mutated(entries[i][2])>>
               ELSE entries[i]])
      values(entries) == [i \in DOMAIN entries |-> entries[i][2]]
      loop(items, subs) == array(items, subs, FirstError(subs))
      for(entries, subs) ==
        IF descriptor.id = "array" THEN loop(values(entries), subs)
        ELSE object(entries, FirstError(subs))
      from(entries) ==
        for(entries, [i \in DOMAIN entries |-> Coerce(entries[i][2])])
  IN  IF descriptor.id = "array" /\ Len(descriptor.items) > 0
      THEN from([i \in DOMAIN descriptor.items |->
                   <<IndexKey(i), descriptor.items[i]>>])
      ELSE IF descriptor.id = "object" THEN from(descriptor.entries)
      ELSE descriptor

\* JSON.parse(JSON.stringify(value, replacer)): a shape becomes its name,
\* undefined, NaN, functions and regular expressions become strings, and an
\* object or an array becomes a new one
RECURSIVE Revive(_)
Revive(value) ==
  CASE isShape(value) -> Str(value.name)
    [] value.id = "array" ->
         Arr(0 - value.ref,
             [i \in DOMAIN value.items |-> Revive(value.items[i])])
    [] value.id = "object" ->
         Obj(0 - value.ref,
             [i \in DOMAIN value.entries |->
                <<value.entries[i][1], Revive(value.entries[i][2])>>])
    [] IsError(value) -> Obj(0, <<<<"name", Str(value.name)>>>>)
    [] value.id \in {"undefined", "NaN"} -> Str(value.id)
    [] ClassOf(value) \in {"Function", "RegExp"} -> Str(ToStr(value))
    [] OTHER -> value

-----------------------------------------------------------------------------
(* Checkers.  A checker is called as matcher.call(context, actual, value);  *)
(* context is the set of the method names of the context object.  The       *)
(* outcome holds what the checker returned or threw, the value of the last  *)
(* setExpected call (a sequence of length 0 or 1) and the object of the     *)
(* last setErrorProperties call.                                            *)

NoProps == [k \in {} |-> undefined]

Returned(value, exp, props) ==
  [threw |-> FALSE, value |-> value, expected |-> exp, props |-> props]

Threw(e) ==
  [threw |-> TRUE, value |-> e, expected |-> <<>>, props |-> NoProps]

\* a call of a method the receiver does not have
NotAFunction == NativeError("TypeError", Str("is not a function"))

\* actual(): what calling a function value does
Invoke(fn) ==
  CASE fn.id = "fnBoom" ->
         [threw |-> TRUE, value |-> NativeError("Error", Str("boom"))]
    [] fn.id = "fnThrowsA" -> [threw |-> TRUE, value |-> Str("a")]
    [] OTHER -> [threw |-> FALSE, value |-> undefined]

\* error.prototype.name of a function value
PrototypeName(fn) == IF fn.id = "Error" THEN Str("Error") ELSE undefined

\* error === Error || error.prototype instanceof Error
IsErrorConstructor(fn) == fn.id = "Error"

\* a toBe that compares with Object.is, for which NaN is NaN
toBe_is(context, actual, expected) ==
  Returned(Bool(actual = expected), <<>>, NoProps)

toBe(context, actual, expected) ==
  Returned(Bool(StrictEquals(actual, expected)), <<>>, NoProps)

\* _item instanceof type, over the constructors of the model; a primitive
\* string, number or boolean is wrapped with Object(item) first
instanceOf(item, type) ==
  CASE type.id = "Error" -> IsError(item)
    [] type.id = "Object" -> item \notin {undefined, null}
    [] OTHER -> FALSE

\* a toBeAnInstanceOf that answers false where the code reports a misuse
toBeAnInstanceOf_lenient(context, actual, constructor) ==
  IF typeOf(constructor) # "function"
  THEN Returned(false, <<>>, NoProps)
  ELSE Returned(Bool(instanceOf(actual, constructor)), <<>>, NoProps)

toBeAnInstanceOf(context, actual, constructor) ==
  IF typeOf(constructor) # "function"
  THEN Threw(ExpectationError(
         [message |-> Str("toBeAnInstanceOf matcher requires a constructor function.")]))
  ELSE Returned(Bool(instanceOf(actual, constructor)), <<>>, NoProps)

toBeLike(context, actual, expected) ==
  Returned(Bool(deepEqual(actual, expected)), <<>>, NoProps)

toHaveShape(context, actual, shape) ==
  LET after(r) ==
        IF IsError(r) THEN Threw(r)
        ELSE IF r = false
        THEN IF "setExpected" \in context
             THEN Returned(false, <<Revive(Mutated(shape))>>, NoProps)
             ELSE Threw(NotAFunction)
        ELSE Returned(true, <<>>, NoProps)
  IN  after(compareShape(shape, actual))

toBeNaN(context, actual, value) ==
  Returned(Bool(IsNaN(actual)), <<>>, NoProps)

toBeString(context, actual, value) ==
  Returned(Bool(typeOf(actual) = "string"), <<>>, NoProps)

\* this.setErrorProperties(props); return false
FailWith(context, exp, props) ==
  IF "setErrorProperties" \in context
  THEN Returned(false, exp, props)
  ELSE Threw(NotAFunction)

toThrow(context, actual, error) ==
  LET errorType == typeOf(error)
      exp == IF Truthy(error)
             THEN IF errorType = "function" /\ IsErrorConstructor(error)
                  THEN <<PrototypeName(error)>>
                  ELSE <<error>>
             ELSE <<>>
      call == Invoke(actual)
      actualError == call.value
  IN  IF typeOf(actual) # "function"
      THEN Threw(ExpectationError(
             [message |-> Str("The value passed to expect() must be a function when toThrow is used."),
              actual |-> Str(typeOf(actual)),
              expected |-> Str("function")]))
      ELSE IF ~call.threw
      THEN FailWith(context, exp,
             [message |-> Str("Expected function to throw"),
              actual |-> null, expected |-> error])
      ELSE IF ~Truthy(error) THEN Returned(true, exp, NoProps)
      ELSE IF ~IsError(actualError)
      THEN FailWith(context, exp,
             [message |-> Str("Expected the thrown value to inherit from Error, got "
                              \o typeOf(actualError)),
              actual |-> actualError, expected |-> error])
      ELSE CASE errorType = "string" ->
                  IF StrictEquals(actualError.message, error)
                  THEN Returned(true, exp, NoProps)
                  ELSE FailWith(context, exp,
                         [message |-> Str("Expected function to throw an error with a message that match the expected string"),
                          actual |-> actualError.message,
                          expected |-> error])
             [] errorType = "regexp" ->
                  IF RegExpTest(error, ToStr(actualError.message))
                  THEN Returned(true, exp, NoProps)
                  ELSE FailWith(context, exp,
                         [message |-> Str("Expected function to throw an error with a message that match the expected regexp pattern"),
                          actual |-> actualError.message,
                          expected |-> Str(ToStr(error))])
             [] errorType = "function" ->
                  Returned(Bool(StrictEquals(Str(actualError.name),
                                             PrototypeName(error))),
                           exp, NoProps)
             [] OTHER -> Returned(false, exp, NoProps)

toMatch(context, actual, expression) ==
  IF expression \in {undefined, null}
  THEN Threw(NativeError("TypeError", Str("Cannot read properties")))
  ELSE IF typeOf(expression) # "regexp" THEN Threw(NotAFunction)
  ELSE Returned(Bool(RegExpTest(expression, ToStr(actual))),
                <<Str(ToStr(expression))>>,
                NoProps)

\* a custom checker that passes its argument to setErrorProperties and
\* answers with the actual:
\* function (actual, props) { this.setErrorProperties(props); return actual; }
setsErrorProperties(context, actual, props) ==
  IF "setErrorProperties" \notin context THEN Threw(NotAFunction)
  ELSE Returned(actual, <<>>,
                IF typeOf(props) = "object"
                THEN [k \in Keys(props) |-> Get(props, k)]
                ELSE NoProps)

\* the custom matcher of the README
toStartWith(context, actual, prefix) ==
  IF prefix = NULL_VALUE \/ ~Truthy(prefix)
  THEN Threw(ExpectationError(
         [message |-> Str("toStartWith requires a prefix argument.")]))
  ELSE IF actual \in {undefined, null}
  THEN Threw(NativeError("TypeError", Str("Cannot read properties")))
  ELSE Returned(Bool(StartsWith(ToStr(actual), ToStr(prefix))), <<>>,
                NoProps)

\* matcher.call(context, actual, value)
Call(matcher, context, actual, value) ==
  CASE matcher = "toBe" -> toBe(context, actual, value)
    [] matcher = "toBeNaN" -> toBeNaN(context, actual, value)
    [] matcher = "toBeString" -> toBeString(context, actual, value)
    [] matcher = "toThrow" -> toThrow(context, actual, value)
    [] matcher = "toMatch" -> toMatch(context, actual, value)
    [] matcher = "toStartWith" -> toStartWith(context, actual, value)
    [] matcher = "toBeAnInstanceOf" ->
         toBeAnInstanceOf(context, actual, value)
    [] matcher = "toBeLike" -> toBeLike(context, actual, value)
    [] matcher = "toHaveShape" -> toHaveShape(context, actual, value)
    [] matcher = "setsErrorProperties" ->
         setsErrorProperties(context, actual, value)
    [] matcher = "five" ->
         Threw(NativeError("TypeError",
                           Str("matcher.call is not a function")))

-----------------------------------------------------------------------------
(* Matcher dispatch *)

\* arguments[i] of a call, undefined past the end
Arg(args, i) == IF i <= Len(args) THEN args[i] ELSE undefined

\* (asNot ? 'not ' : '') + makeHumanReadable(name)
Operator(name, asNot) ==
  [id |-> "text",
   chars |-> (IF asNot THEN <<"n", "o", "t", " ">> ELSE <<>>)
             \o makeHumanReadable(Chars(name))]

\* an applyMatcher that goes on after a failed verdict: it returns the token
\* where the code raises
applyMatcher_lenient(self, this, name, matcher, asNot, args) ==
  LET value == Arg(args, 1)
      r == Call(matcher, {"setErrorProperties", "setExpected"},
                this._actual, value)
      call == [matcher |-> matcher, actual |-> this._actual,
               value |-> value]
  IN  IF r.threw
      THEN [type |-> "throw", and |-> 0, error |-> r.value, call |-> call]
      ELSE [type |-> "token", and |-> self, error |-> undefined,
            call |-> call]

\* an applyMatcher whose default for expected is the argument even when no
\* argument was passed
applyMatcher_noDefault(self, this, name, matcher, asNot, args) ==
  LET value == Arg(args, 1)
      r == Call(matcher, {"setErrorProperties", "setExpected"},
                this._actual, value)
      call == [matcher |-> matcher, actual |-> this._actual,
               value |-> value]
  IN  IF r.threw
      THEN [type |-> "throw", and |-> 0, error |-> r.value, call |-> call]
      ELSE IF Truthy(r.value) # asNot
      THEN [type |-> "token", and |-> self, error |-> undefined,
            call |-> call]
      ELSE [type |-> "throw", and |-> 0,
            error |-> ExpectationError(objectAssign(
                        [description |-> this._description,
                         operator |-> Operator(name, asNot),
                         actual |-> this._actual,
                         expected |-> IF r.expected = <<>> THEN value
                                      ELSE r.expected[1]],
                        r.props)),
            call |-> call]

\* an applyMatcher whose token leads to the expectation the chain began
\* with
applyMatcher_toFirst(self, this, name, matcher, asNot, args) ==
  [applyMatcher_noDefault(self, this, name, matcher, asNot, args)
     EXCEPT !.and = IF @ = 0 THEN 0 ELSE 1]

\* applyMatcher, called through partial(applyMatcher, name, matcher, asNot)
\* with the caller's arguments args on the heap object this, whose index is
\* self.  call is what the checker received
applyMatcher(self, this, name, matcher, asNot, args) ==
  LET value == Arg(args, 1)
      expected == IF 3 + Len(args) = 4 THEN value ELSE NULL_VALUE
      context == {"setErrorProperties", "setExpected"}
      call == [matcher |-> matcher, actual |-> this._actual,
               value |-> value]
      \* what follows the call of the checker, whose outcome is r
      after(r) ==
        IF r.threw
        THEN [type |-> "throw", and |-> 0, error |-> r.value, call |-> call]
        ELSE IF Truthy(r.value) # asNot
        THEN [type |-> "token", and |-> self, error |-> undefined,
              call |-> call]
        ELSE [type |-> "throw", and |-> 0,
              error |-> ExpectationError(objectAssign(
                          [description |-> this._description,
                           operator |-> Operator(name, asNot),
                           actual |-> this._actual,
                           expected |-> IF r.expected = <<>> THEN expected
                                        ELSE r.expected[1]],
                          r.props)),
              call |-> call]
  IN  after(Call(matcher, context, this._actual, value))

\* a caller that runs the checker on undefined, as it would before the
\* promise has a value
caller_unsettled(name, matcher, asNot, args, actual) ==
  LET call == [matcher |-> matcher, actual |-> undefined,
               value |-> Arg(args, 1)]
      after(r) ==
        [state |-> IF r.threw \/ Truthy(r.value) = asNot THEN "rejected"
                   ELSE "fulfilled",
         value |-> IF r.threw THEN r.value ELSE undefined,
         call |-> call]
  IN  after(Call(matcher, {"setExpected"}, undefined, Arg(args, 1)))

\* the function caller of applyPromisedMatcher, closed over name, matcher,
\* asNot and the caller's arguments args, called with the settled value
caller(name, matcher, asNot, args, actual) ==
  LET value == Arg(args, 1)
      expected == IF 3 + Len(args) = 4 THEN value ELSE NULL_VALUE
      context == {"setExpected"}
      call == [matcher |-> matcher, actual |-> actual, value |-> value]
      \* what follows the call of the checker, whose outcome is r
      after(r) ==
        IF r.threw
        THEN [state |-> "rejected", value |-> r.value, call |-> call]
        ELSE IF Truthy(r.value) # asNot
        THEN [state |-> "fulfilled", value |-> actual, call |-> call]
        ELSE [state |-> "rejected",
              value |-> ExpectationError(
                          [operator |-> Operator(name, asNot),
                           actual |-> actual,
                           expected |-> IF r.expected = <<>> THEN expected
                                        ELSE r.expected[1]]),
              call |-> call]
  IN  after(Call(matcher, context, actual, value))

-----------------------------------------------------------------------------
(* The prototypes *)

Kinds == {"Expectation", "ReversedExpectation", "PromisedExpectation",
          "ReversedPromisedExpectation"}

MethodNames == {"toBe", "toBeNaN", "toBeString", "toBeAString", "toThrow",
                "toMatch", "toStartWith", "toBeAnInstanceOf", "toBeLike",
                "toHaveShape"}

NoMethod ==
  [type |-> "none", fn |-> "", name |-> "", matcher |-> "", asNot |-> FALSE]

\* partial(fn, name, matcher, asNot)
partial(fn, name, matcher, asNot) ==
  [type |-> "partial", fn |-> fn, name |-> name, matcher |-> matcher,
   asNot |-> asNot]

\* an addMatcher that keeps the checker a name already has
addMatcher_firstWins(p, name, matcher) ==
  IF p["Expectation"][name].type # "none" THEN p
  ELSE [p EXCEPT
          !["Expectation"][name] =
             partial("applyMatcher", name, matcher, FALSE),
          !["ReversedExpectation"][name] =
             partial("applyMatcher", name, matcher, TRUE),
          !["PromisedExpectation"][name] =
             partial("applyPromisedMatcher", name, matcher, FALSE),
          !["ReversedPromisedExpectation"][name] =
             partial("applyPromisedMatcher", name, matcher, TRUE)]

\* an addMatcher that registers the checker unnegated on the negated
\* prototypes too
addMatcher_unnegated(p, name, matcher) ==
  [p EXCEPT
     !["Expectation"][name] = partial("applyMatcher", name, matcher, FALSE),
     !["ReversedExpectation"][name] =
        partial("applyMatcher", name, matcher, FALSE),
     !["PromisedExpectation"][name] =
        partial("applyPromisedMatcher", name, matcher, FALSE),
     !["ReversedPromisedExpectation"][name] =
        partial("applyPromisedMatcher", name, matcher, FALSE)]

addMatcher(p, name, matcher) ==
  [p EXCEPT
     !["Expectation"][name] = partial("applyMatcher", name, matcher, FALSE),
     !["ReversedExpectation"][name] =
        partial("applyMatcher", name, matcher, TRUE),
     !["PromisedExpectation"][name] =
        partial("applyPromisedMatcher", name, matcher, FALSE),
     !["ReversedPromisedExpectation"][name] =
        partial("applyPromisedMatcher", name, matcher, TRUE)]

\* an aliasMatcher that installs the methods name has at that moment
aliasMatcher_snapshot(p, name, alias) ==
  IF p["Expectation"][name].type = "none" THEN p
  ELSE [k \in Kinds |-> [p[k] EXCEPT ![alias] = p[k][name]]]

aliasMatcher(p, name, alias) ==
  IF p["Expectation"][name].type = "none" THEN p
  ELSE LET forward == [NoMethod EXCEPT !.type = "caller", !.name = name]
       IN  [k \in Kinds |-> [p[k] EXCEPT ![alias] = forward]]

\* addMatchers; matchers is the sequence of the <<name, checker>> entries
\* of the object, in enumeration order
RECURSIVE addMatchers(_, _)
addMatchers(p, matchers) ==
  IF matchers = <<>> THEN p
  ELSE addMatchers(addMatcher(p, Head(matchers)[1], Head(matchers)[2]),
                   Tail(matchers))

\* the object of the default matchers
DefaultMatchers ==
  <<<<"toBe", "toBe">>, <<"toBeString", "toBeString">>,
    <<"toBeNaN", "toBeNaN">>, <<"toThrow", "toThrow">>,
    <<"toMatch", "toMatch">>, <<"toBeAnInstanceOf", "toBeAnInstanceOf">>,
    <<"toBeLike", "toBeLike">>, <<"toHaveShape", "toHaveShape">>>>

\* the default matchers of the model, and the alias of toBeString
DefaultProtos ==
  aliasMatcher(
    addMatchers([k \in Kinds |-> [n \in MethodNames |-> NoMethod]],
                DefaultMatchers),
    "toBeString", "toBeAString")

\* the aliases made by the time the module is loaded
DefaultAliased ==
  [n \in MethodNames |-> IF n = "toBeAString" THEN "toBeString" ELSE ""]

\* the registrations made by the time the module is loaded
DefaultRegistered ==
  [n \in MethodNames |->
     IF \E i \in DOMAIN DefaultMatchers : DefaultMatchers[i][1] = n
     THEN n ELSE ""]

\* this[name], following the forwarding function of an alias
RECURSIVE Method(_, _, _)
Method(p, kind, name) ==
  LET m == p[kind][name]
  IN  IF m.type = "caller" THEN Method(p, kind, m.name) ELSE m

-----------------------------------------------------------------------------
(* Objects *)

\* new Expectation(actual, description), where the not getter is defined
Expectation(actual, description) ==
  [kind |-> "Expectation", _actual |-> actual,
   _description |-> description, _not |-> 0, _promise |-> 0]

\* new ReversedExpectation(actual, description)
ReversedExpectation(actual, description) ==
  [kind |-> "ReversedExpectation", _actual |-> actual,
   _description |-> description, _not |-> 0, _promise |-> 0]

\* new PromisedExpectation(actual, description), actual a promise that
\* Promise.resolve returns as it is; promise is its index
PromisedExpectation(promise, description) ==
  [kind |-> "PromisedExpectation", _actual |-> undefined,
   _description |-> description, _not |-> 0, _promise |-> promise]

\* new ReversedPromisedExpectation(value, description)
ReversedPromisedExpectation(promise, description) ==
  [kind |-> "ReversedPromisedExpectation", _actual |-> undefined,
   _description |-> description, _not |-> 0, _promise |-> promise]

\* notGetter: this._not || (this._not = new ReversedExpectation(...))
notGetter(this) == ReversedExpectation(this._actual, undefined)

\* promisedNotGetter
promisedNotGetter(this) == ReversedPromisedExpectation(this._promise, undefined)

NoJob ==
  [name |-> "", matcher |-> "", asNot |-> FALSE, args |-> <<>>, on |-> 0]

\* a promise: its state and value, the promise it was derived from by then
\* (0: none), the closure caller given to then (with the object the matcher
\* was called on), and what the checker received in each run of caller
Promise(state, value, parent, job) ==
  [state |-> state, value |-> value, parent |-> parent, job |-> job,
   calls |-> <<>>]

NoResult == [type |-> "none", and |-> 0, error |-> undefined, promise |-> 0]

NoReceived == [matcher |-> "", actual |-> undefined, value |-> undefined]

NoCall == [op |-> "none", name |-> "", args |-> <<>>, on |-> 0]

-----------------------------------------------------------------------------
(* Inputs *)

Values ==
  {undefined, null, V("NaN"), V("1"), Str("a"), Str(""), V("obj1"),
   V("fnOk"), V("fnBoom"), V("fnThrowsA")}

Descriptions == {undefined, Str("my-desc")}

\* the argument lists of a matcher call: none, one, or two arguments
ArgLists ==
  {<<>>, <<undefined>>, <<V("NaN")>>, <<V("1")>>, <<Str("a")>>,
   <<Str("boom")>>, <<V("obj1")>>, <<V("obj2")>>, <<V("/o/")>>,
   <<V("/z/")>>, <<V("Error")>>, <<Str("a"), Str("extra")>>, <<Str("")>>,
   <<V("Object")>>}

\* the names of the matchers that take scalar arguments
ScalarNames ==
  {"toBe", "toBeNaN", "toBeString", "toBeAString", "toThrow", "toMatch",
   "toStartWith", "toBeAnInstanceOf"}

\* scalars, objects and arrays to compare deeply: two objects and two arrays
\* of equal contents, objects that differ in a key or in a value, an object
\* inside an object, and the arguments objects of three calls, two of them
\* with the same arguments
StructValues ==
  {undefined, null, V("NaN"), V("0"), V("1"), Str(""), Str("1"), true,
   false, V("fnOk"),
   Obj(1, <<>>), Obj(2, <<<<"a", V("1")>>>>), Obj(3, <<<<"a", V("1")>>>>),
   Obj(4, <<<<"a", Str("1")>>>>), Obj(5, <<<<"b", V("1")>>>>),
   Obj(6, <<<<"a", V("1")>>, <<"b", undefined>>>>),
   Obj(7, <<<<"z", Obj(2, <<<<"a", V("1")>>>>)>>>>),
   Obj(8, <<<<"z", Obj(3, <<<<"a", V("1")>>>>)>>>>),
   Arr(9, <<>>), Arr(10, <<V("1")>>), Arr(11, <<V("1")>>),
   Arr(12, <<V("1"), Str("1")>>),
   Arguments(16, <<V("1")>>), Arguments(17, <<V("1")>>),
   Arguments(18, <<Str("1")>>)}

\* the type shapes the model uses
Number == addTypeShape("Number")
String == addTypeShape("String")
Undefined == addTypeShape("Undefined")

\* the candidates of a shape comparison: scalars, an error, objects with
\* none, some and all of the keys a and b, and arrays of none to three items
ShapeValues ==
  {undefined, null, V("1"), Str("a"), NativeError("Error", Str("boom")),
   Obj(1, <<>>), Obj(2, <<<<"a", V("1")>>>>), Obj(3, <<<<"a", Str("a")>>>>),
   Obj(4, <<<<"a", V("1")>>, <<"b", Str("a")>>>>),
   Obj(5, <<<<"b", Str("a")>>>>),
   Obj(6, <<<<"a", V("1")>>, <<"b", Str("a")>>, <<"c", true>>>>),
   Obj(7, <<<<"z", Obj(2, <<<<"a", V("1")>>>>)>>>>),
   Obj(8, <<<<"a", Arr(12, <<V("1"), Str("a")>>)>>>>),
   Arr(9, <<>>), Arr(10, <<V("1")>>), Arr(11, <<Str("a")>>),
   Arr(12, <<V("1"), Str("a")>>), Arr(13, <<V("1"), V("1")>>),
   Arr(14, <<V("1"), Str("a"), true>>),
   Arr(15, <<Obj(2, <<<<"a", V("1")>>>>)>>)}

\* the descriptors shapes are built from
Descriptors ==
  {undefined,
   Obj(20, <<<<"a", Number>>>>),
   Obj(21, <<<<"a", Number>>, <<"b", String>>>>),
   Obj(22, <<<<"a", V("1")>>>>),
   Obj(23, <<<<"a", Undefined>>>>),
   Obj(24, <<<<"z", Obj(20, <<<<"a", Number>>>>)>>>>),
   Obj(25, <<<<"a", Arr(30, <<Number, String>>)>>>>),
   Obj(26, <<<<"a", Arr(31, <<>>)>>>>)}

\* the lists ArrayStructure shapes are built from
TypeLists ==
  {Arr(30, <<Number, String>>), Arr(31, <<>>), Arr(32, <<Number>>),
   Arr(33, <<Number, Undefined>>), Arr(34, <<V("1")>>),
   Arr(35, <<Obj(20, <<<<"a", Number>>>>)>>)}

\* the shapes that were built without an error
BuiltShapes ==
  {s \in {InternalShapes_Object(d) : d \in Descriptors}
          \cup {InternalShapes_ArrayStructure(t) : t \in TypeLists}
          \cup {InternalShapes_Array(undefined),
                InternalShapes_Array(Number),
                InternalShapes_Array(V("1"))} :
     isShape(s)}

\* the shape arguments of toHaveShape: type shapes, a literal, built shapes,
\* raw descriptors and raw lists, a scalar and nothing
ShapeArgs ==
  {Number, String, InternalShapes_Literal(V("1")), V("1"), undefined}
    \cup BuiltShapes \cup (Descriptors \ {undefined}) \cup TypeLists

\* the argument lists of expect.fail
FailArgLists ==
  {<<>>, <<undefined>>, <<Str("")>>, <<V("0")>>, <<Str("a")>>, <<V("1")>>}

\* an object whose then member is then
Thenable(then) == [id |-> "thenable", then |-> then]

\* values given to expect.promised that are not promises: falsy values,
\* values without a then member, an object whose then is not callable, and
\* objects whose then is a function or an async function
PromisedCandidates ==
  {undefined, null, V("0"), Str(""), V("1"), V("obj1"), Thenable(V("1")),
   Thenable(V("fnOk")), Thenable(V("asyncFn"))}

\* the settled values of the promises given to expect.promised
PromisedValues == {V("1"), V("fnOk"), V("fnBoom")}

\* the matcher calls made on promised expectations
PromisedCalls ==
  {<<"toBe", <<V("1")>>>>, <<"toThrow", <<>>>>, <<"toMatch", <<V("/o/")>>>>}

\* the actual values, the <<name, checker>> pairs given to addMatcher (five
\* is the number 5, not a function), the objects given to addMatchers, the
\* names aliased and called, and the argument lists of the registry
RegistryValues == {Str("abc")}
Registrable ==
  {<<"toBe", "toBeString">>, <<"toBe", "five">>,
   <<"toStartWith", "toStartWith">>, <<"toStartWith", "toBe">>}
MatcherObjects ==
  {<<<<"toBe", "toBeString">>, <<"toStartWith", "toStartWith">>>>}
AliasedNames == {"toStartWith"}
AliasNames == {"toBeAString"}
CalledNames == {"toBe", "toStartWith", "toBeAString"}
RegistryArgLists == {<<Str("a")>>}

-----------------------------------------------------------------------------
(* State *)

Init ==
  /\ protos = DefaultProtos
  /\ heap = <<>>
  /\ promises = <<>>
  /\ cur = 0
  /\ result = NoResult
  /\ log = <<>>
  /\ lastCall = NoCall
  /\ received = NoReceived
  /\ ncalls = 0
  /\ registered = DefaultRegistered
  /\ aliased = DefaultAliased
  /\ older = {}
  /\ cache = knownTypes
  /\ typed = <<>>

Sync(o) == o.kind \in {"Expectation", "ReversedExpectation"}

\* the statement ends and the test drops its objects
End ==
  /\ heap # <<>>
  /\ heap' = <<>>
  /\ promises' = <<>>
  /\ cur' = 0
  /\ result' = NoResult
  /\ log' = <<>>
  /\ ncalls' = 0
  /\ lastCall' = NoCall
  /\ received' = NoReceived
  /\ older' = {}
  /\ UNCHANGED <<cache, typed, protos, registered, aliased>>

\* expect(actual, description), a statement of its own
Expect(actual, description) ==
  /\ heap = <<>>
  /\ heap' = <<Expectation(actual, description)>>
  /\ promises' = <<>>
  /\ cur' = 1
  /\ result' = NoResult
  /\ log' = <<>>
  /\ ncalls' = 0
  /\ lastCall' = NoCall
  /\ received' = NoReceived
  /\ older' = {}
  /\ UNCHANGED <<cache, typed, protos, registered, aliased>>

\* the test starts another chain on the object that expect or
\* expect.promised returned, which it kept in a variable
Ref ==
  /\ heap # <<>>
  /\ cur' = 1
  /\ result' = NoResult
  /\ log' = <<>>
  /\ ncalls' = 0
  /\ lastCall' = NoCall
  /\ received' = NoReceived
  /\ UNCHANGED <<cache, typed, protos, heap, promises,
                 registered, aliased, older>>

\* .not on an Expectation or a PromisedExpectation
Not ==
  /\ cur # 0
  /\ heap[cur].kind \in {"Expectation", "PromisedExpectation"}
  /\ IF heap[cur]._not # 0
     THEN /\ cur' = heap[cur]._not
          /\ heap' = heap
     ELSE /\ cur' = Len(heap) + 1
          /\ heap' = Append([heap EXCEPT ![cur]._not = Len(heap) + 1],
                            IF Sync(heap[cur]) THEN notGetter(heap[cur])
                            ELSE promisedNotGetter(heap[cur]))
  /\ result' = NoResult
  /\ lastCall' = NoCall
  /\ UNCHANGED <<cache, typed, protos, promises, log, received, ncalls,
                 registered, aliased, older>>

\* .and of what the last matcher call returned
And ==
  /\ result.type \in {"token", "promise"}
  /\ cur' = result.and
  /\ lastCall' = NoCall
  /\ result' = NoResult
  /\ UNCHANGED <<cache, typed, protos, heap, promises, log, received, ncalls,
                 registered, aliased, older>>

\* a matcher method called on an Expectation or a ReversedExpectation
CallMatcher(name, args) ==
  /\ cur # 0
  /\ Sync(heap[cur])
  /\ ncalls < MaxChain
  /\ LET m == Method(protos, heap[cur].kind, name)
         \* what the statement leaves, out being what applyMatcher did
         leave(out) ==
           /\ result' = [type |-> out.type, and |-> out.and,
                         error |-> out.error, promise |-> 0]
           /\ log' = Append(log, [actual |-> out.call.actual,
                                  pass |-> out.type = "token"])
           /\ received' = out.call
           /\ cur' = IF out.type = "token" THEN cur ELSE 0
     IN  /\ m.type = "partial"
         /\ leave(applyMatcher(cur, heap[cur], m.name, m.matcher, m.asNot,
                               args))
  /\ ncalls' = ncalls + 1
  /\ lastCall' = [op |-> "matcher", name |-> name, args |-> args, on |-> cur]
  /\ UNCHANGED <<cache, typed, protos, heap, promises,
                 registered, aliased, older>>

\* a fail that keeps every argument it is passed as the message
fail_any(args) ==
  ExpectationError([message |-> IF Len(args) = 0 THEN Str("Force failed.")
                                ELSE args[1]])

\* the error expect.fail(message) throws, called with the arguments args
fail(args) ==
  ExpectationError([message |-> IF Truthy(Arg(args, 1)) THEN Arg(args, 1)
                                ELSE Str("Force failed.")])

\* expect.fail(message), a statement of its own
Fail(args) ==
  /\ heap = <<>>
  /\ result' = [NoResult EXCEPT !.type = "throw", !.error = fail(args)]
  /\ heap' = <<>>
  /\ promises' = <<>>
  /\ cur' = 0
  /\ log' = <<>>
  /\ ncalls' = 0
  /\ received' = NoReceived
  /\ lastCall' = [NoCall EXCEPT !.op = "fail", !.args = args]
  /\ older' = {}
  /\ UNCHANGED <<cache, typed, protos, registered, aliased>>

\* expect.addMatcher('toStartWith', ...), the custom matcher of the README
AddMatcher ==
  /\ protos' = addMatcher(protos, "toStartWith", "toStartWith")
  /\ registered' = [registered EXCEPT !["toStartWith"] = "toStartWith"]
  /\ older' = DOMAIN heap
  /\ result' = NoResult
  /\ received' = NoReceived
  /\ lastCall' = [NoCall EXCEPT !.op = "addMatcher", !.name = "toStartWith"]
  /\ UNCHANGED <<cache, typed, heap, promises, cur, log, ncalls, aliased>>

\* expect.addMatcher(name, matcher), with any of the checkers of the model
Register(name, matcher) ==
  /\ protos' = addMatcher(protos, name, matcher)
  /\ registered' = [registered EXCEPT ![name] = matcher]
  /\ older' = DOMAIN heap
  /\ result' = NoResult
  /\ received' = NoReceived
  /\ lastCall' = [NoCall EXCEPT !.op = "addMatcher", !.name = name]
  /\ UNCHANGED <<cache, typed, heap, promises, cur, log, ncalls, aliased>>

\* the last registration of each name after the entries of matchers are
\* registered in order
RECURSIVE Registrations(_, _)
Registrations(reg, matchers) ==
  IF matchers = <<>> THEN reg
  ELSE Registrations([reg EXCEPT ![Head(matchers)[1]] = Head(matchers)[2]],
                     Tail(matchers))

\* expect.addMatchers(matchers)
RegisterAll(matchers) ==
  /\ protos' = addMatchers(protos, matchers)
  /\ registered' = Registrations(registered, matchers)
  /\ older' = DOMAIN heap
  /\ result' = NoResult
  /\ received' = NoReceived
  /\ lastCall' = [NoCall EXCEPT !.op = "addMatchers"]
  /\ UNCHANGED <<cache, typed, heap, promises, cur, log, ncalls, aliased>>

\* aliasMatcher(name, alias)
Alias(name, alias) ==
  /\ protos' = aliasMatcher(protos, name, alias)
  /\ result' = NoResult
  /\ received' = NoReceived
  /\ lastCall' = [NoCall EXCEPT !.op = "aliasMatcher", !.name = name,
                                !.args = <<Str(alias)>>]
  /\ aliased' = IF registered[name] # ""
                THEN [aliased EXCEPT ![alias] = name]
                ELSE aliased
  /\ UNCHANGED <<cache, typed, heap, promises, cur, log, ncalls, registered, older>>

\* expect.promised(actual, description), actual a promise in the given
\* state
ExpectPromised(state, value, description) ==
  /\ heap = <<>>
  /\ promises' = <<Promise(state, value, 0, NoJob)>>
  /\ heap' = <<PromisedExpectation(1, description)>>
  /\ cur' = 1
  /\ result' = NoResult
  /\ log' = <<>>
  /\ ncalls' = 0
  /\ received' = NoReceived
  /\ lastCall' = NoCall
  /\ older' = {}
  /\ UNCHANGED <<cache, typed, protos, registered, aliased>>

\* the test of the PromisedExpectation constructor:
\* !actual || typeOf(actual.then) !== 'function'
NotAPromise(actual) ==
  ~Truthy(actual) \/ typeOf(Opt(actual, "then")) # "function"

\* expect.promised(actual, description) with a value that is not a promise:
\* the constructor throws, or wraps the thenable with Promise.resolve
ExpectPromisedValue(actual, description) ==
  /\ heap = <<>>
  /\ IF NotAPromise(actual)
     THEN /\ result' = [NoResult EXCEPT
                          !.type = "throw",
                          !.error = NativeError("TypeError",
                                                Str("Expected a promise."))]
          /\ heap' = <<>>
          /\ promises' = <<>>
          /\ cur' = 0
     ELSE /\ result' = NoResult
          /\ heap' = <<PromisedExpectation(1, description)>>
          /\ promises' = <<Promise("pending", undefined, 0, NoJob)>>
          /\ cur' = 1
  /\ log' = <<>>
  /\ ncalls' = 0
  /\ received' = NoReceived
  /\ lastCall' = [NoCall EXCEPT !.op = "promised", !.args = <<actual>>]
  /\ older' = {}
  /\ UNCHANGED <<cache, typed, protos, registered, aliased>>

\* the promise given to expect.promised settles
Settle(state, value) ==
  /\ promises # <<>>
  /\ promises[1].state = "pending"
  /\ promises' = [promises EXCEPT ![1].state = state, ![1].value = value]
  /\ UNCHANGED <<cache, typed, protos, heap, cur, result, log, lastCall, received, ncalls,
                 registered, aliased, older>>

\* a matcher method called on a PromisedExpectation or a
\* ReversedPromisedExpectation: applyPromisedMatcher
PromisedCall(name, args) ==
  /\ cur # 0
  /\ ~Sync(heap[cur])
  /\ Len(promises) <= MaxPromises
  /\ LET m == Method(protos, heap[cur].kind, name)
         retValue == Len(promises) + 1
     IN  /\ m.type = "partial"
         /\ promises' = Append(promises,
                          Promise("pending", undefined, heap[cur]._promise,
                                  [name |-> m.name, matcher |-> m.matcher,
                                   asNot |-> m.asNot, args |-> args,
                                   on |-> cur]))
         /\ heap' = Append(heap, PromisedExpectation(retValue, undefined))
         /\ result' = [type |-> "promise", and |-> Len(heap) + 1,
                       error |-> undefined, promise |-> retValue]
  /\ cur' = cur
  /\ lastCall' = [op |-> "matcher", name |-> name, args |-> args, on |-> cur]
  /\ UNCHANGED <<cache, typed, protos, log, received, ncalls,
                 registered, aliased, older>>

\* the reaction of promise i runs: caller, with the value its parent settled
\* with
React(i) ==
  /\ i \in DOMAIN promises
  /\ promises[i].state = "pending"
  /\ promises[i].parent # 0
  /\ promises[promises[i].parent].state # "pending"
  /\ LET j == promises[i].job
         settle(out) ==
           promises' = [promises EXCEPT ![i].state = out.state,
                                        ![i].value = out.value,
                                        ![i].calls = Append(@, out.call)]
     IN  settle(caller(j.name, j.matcher, j.asNot, j.args,
                       promises[promises[i].parent].value))
  /\ UNCHANGED <<cache, typed, protos, heap, cur, result, log, lastCall, received, ncalls,
                 registered, aliased, older>>

Next ==
  \/ \E a \in Values, d \in Descriptions : Expect(a, d)
  \/ Ref
  \/ Not
  \/ And
  \/ \E n \in ScalarNames, args \in ArgLists : CallMatcher(n, args)
  \/ \E args \in FailArgLists : Fail(args)
  \/ End

Spec == Init /\ [][Next]_vars

\* a matcher called first on the object expect or .not returned
CallFirst(name, args) == ncalls = 0 /\ CallMatcher(name, args)

\* deep comparison: toBeLike on scalars, objects and arrays
LikeNext ==
  \/ \E a \in StructValues : Expect(a, undefined)
  \/ Not
  \/ \E e \in StructValues : CallFirst("toBeLike", <<e>>)
  \/ End

LikeSpec == Init /\ [][LikeNext]_vars

\* the arguments of the checker that sets error properties: nothing, no
\* field, a message, an empty message, actual and expected, description and
\* operator, and an expected of undefined
PropsArgs ==
  {undefined, Obj(40, <<>>), Obj(41, <<<<"message", Str("m")>>>>),
   Obj(42, <<<<"message", Str("")>>>>),
   Obj(43, <<<<"actual", null>>, <<"expected", V("1")>>>>),
   Obj(44, <<<<"description", Str("d")>>,
             <<"operator", Operator("toBe", FALSE)>>>>),
   Obj(45, <<<<"expected", undefined>>>>)}

\* the actuals of these calls: the verdicts of the custom checker and the
\* functions of toThrow
PropsValues == {true, false, V("fnOk"), V("fnBoom")}

\* failures with error properties: the custom checker registered as
\* toStartWith, and toThrow
PropsNext ==
  \/ \E a \in PropsValues, d \in {undefined, Str("my-desc")} : Expect(a, d)
  \/ Not
  \/ Register("toStartWith", "setsErrorProperties")
  \/ \E props \in PropsArgs : CallFirst("toStartWith", <<props>>)
  \/ \E args \in {<<>>, <<Str("a")>>, <<V("Error")>>} :
       CallFirst("toThrow", args)
  \/ End

PropsSpec == Init /\ [][PropsNext]_vars

\* a call typeOf(item)
TypeOf(item) ==
  /\ Len(typed) < MaxTyped
  /\ LET store(r) ==
           /\ cache' = r.knownTypes
           /\ typed' = Append(typed,
                              [item |-> item, tag |-> r.value,
                               hit |-> item \in {undefined, null}
                                         \/ ClassOf(item) \in DOMAIN cache])
     IN  store(typeOf_cached(cache, item))
  /\ UNCHANGED <<protos, heap, promises, cur, result, log, lastCall,
                 received, ncalls, registered, aliased, older>>

\* the values typeOf is called with: of built-in classes, of the classes
\* Error and AsyncFunction that are not built in, two errors of one class
TypeItems ==
  {undefined, null, V("1"), Str("a"), true, V("fnOk"), V("asyncFn"),
   V("/o/"), NativeError("Error", Str("boom")),
   NativeError("TypeError", Str("is not a function")),
   Obj(1, <<>>), Arr(9, <<>>), Arguments(16, <<V("1")>>)}

\* typeOf calls alone
TypeNext == \E item \in TypeItems : TypeOf(item)

TypeSpec == Init /\ [][TypeNext]_vars

\* shape comparison: toHaveShape with one shape argument
ShapeNext ==
  \/ \E a \in ShapeValues : Expect(a, undefined)
  \/ Not
  \/ \E s \in ShapeArgs : CallFirst("toHaveShape", <<s>>)
  \/ End

ShapeSpec == Init /\ [][ShapeNext]_vars

PromisedNext ==
  \/ \E v \in PromisedValues, d \in {Str("my-desc")} :
       \/ ExpectPromised("pending", undefined, d)
       \/ ExpectPromised("fulfilled", v, d)
       \/ ExpectPromised("rejected", v, d)
  \/ \E a \in PromisedCandidates : ExpectPromisedValue(a, Str("my-desc"))
  \/ \E v \in PromisedValues :
       \/ Settle("fulfilled", v)
       \/ Settle("rejected", v)
  \/ Not
  \/ And
  \/ \E c \in PromisedCalls : PromisedCall(c[1], c[2])
  \/ \E i \in DOMAIN promises : React(i)
  \/ End

PromisedSpec == Init /\ [][PromisedNext]_vars

\* the registry: registrations and aliases at any moment, and calls on
\* expectations of the four kinds
RegistryNext ==
  \/ \E a \in RegistryValues : Expect(a, undefined)
  \/ \E v \in RegistryValues : ExpectPromised("fulfilled", v, undefined)
  \/ Not
  \/ AddMatcher
  \/ \E r \in Registrable : Register(r[1], r[2])
  \/ \E m \in MatcherObjects : RegisterAll(m)
  \/ \E n \in AliasedNames, a \in AliasNames : Alias(n, a)
  \/ \E n \in CalledNames, args \in RegistryArgLists :
       \/ CallMatcher(n, args)
       \/ PromisedCall(n, args)
  \/ \E i \in DOMAIN promises : React(i)
  \/ End

RegistrySpec == Init /\ [][RegistryNext]_vars

-----------------------------------------------------------------------------
(* Properties *)

FullContext == {"setErrorProperties", "setExpected"}

\* the last statement was a matcher call on a synchronous expectation
SyncCall == lastCall.op = "matcher" /\ Sync(heap[lastCall.on])

\* the object the last matcher was called on, the method it ran and what
\* its checker does with the arguments of the call
On == heap[lastCall.on]
Ran == Method(protos, On.kind, lastCall.name)
Verdict == Call(Ran.matcher, FullContext, On._actual, Arg(lastCall.args, 1))

\* the same call made on the expectation of the other polarity
Opposite ==
  LET kind == IF On.kind = "Expectation" THEN "ReversedExpectation"
              ELSE "Expectation"
      m == Method(protos, kind, lastCall.name)
  IN  applyMatcher(0, [On EXCEPT !.kind = kind], m.name, m.matcher, m.asNot,
                   lastCall.args)

\* C1: when the checker of a registered matcher returns without throwing,
\* the call on expect(x) returns a chain token if the result is truthy and
\* raises an ExpectationError if it is falsy, the call on expect(x).not does
\* the opposite, and exactly one of the two raises.
C1_VerdictAndPolarity ==
  (SyncCall /\ ~Verdict.threw) =>
    /\ (result.type = "token") =
         (Truthy(Verdict.value) = (On.kind = "Expectation"))
    /\ result.type \in {"token", "throw"}
    /\ result.type = "throw" => result.error.name = "ExpectationError"
    /\ Opposite.type \in {"token", "throw"}
    /\ Opposite.type # result.type
    /\ Opposite.type = "throw" => Opposite.error.name = "ExpectationError"

C1_Witness ==
  /\ SyncCall
  /\ ~Verdict.threw
  /\ On.kind = "ReversedExpectation"
  /\ Truthy(Verdict.value)
  /\ result.type = "throw"

\* a call expect(x).toBe(x) or expect(x).not.toBe(y)
ToBeCall == SyncCall /\ lastCall.name = "toBe" /\ Len(lastCall.args) = 1

\* C2 as stated: expect(x).toBe(x) does not raise for any value x, and
\* expect(x).not.toBe(y) does not raise when x !== y.
C2_Original ==
  ToBeCall =>
    /\ (On.kind = "Expectation" /\ lastCall.args[1] = On._actual)
         => result.type = "token"
    /\ (On.kind = "ReversedExpectation"
        /\ ~StrictEquals(On._actual, lastCall.args[1]))
         => result.type = "token"

\* C2 as amended: expect(x).toBe(x) does not raise for any value x other
\* than NaN, and raises for NaN; expect(x).not.toBe(y) does not raise when
\* x !== y.
C2_ToBeExceptNaN ==
  ToBeCall =>
    /\ (On.kind = "Expectation" /\ lastCall.args[1] = On._actual)
         => (result.type = "token") = (On._actual # V("NaN"))
    /\ (On.kind = "ReversedExpectation"
        /\ ~StrictEquals(On._actual, lastCall.args[1]))
         => result.type = "token"

C2_Witness ==
  /\ ToBeCall
  /\ On.kind = "Expectation"
  /\ lastCall.args[1] = On._actual
  /\ On._actual = V("obj1")
  /\ result.type = "token"

\* C3: a successful matcher call returns a token whose and is the object the
\* matcher was called on; the matchers of a chain are evaluated one by one
\* against the same actual, each evaluated only after every matcher before
\* it has passed, and the chain ends at the first one whose verdict fails,
\* which raises.
C3_Chain ==
  /\ Len(log) = ncalls
  /\ \A i \in DOMAIN log :
       /\ log[i].actual = heap[1]._actual
       /\ i < Len(log) => log[i].pass
  /\ SyncCall =>
       /\ received.actual = On._actual
       /\ log # <<>>
       /\ log[Len(log)].pass = (result.type = "token")
       /\ ~Verdict.threw =>
            (result.type = "throw") =
              (Truthy(Verdict.value) # (On.kind = "Expectation"))
       /\ result.type = "token" => result.and = lastCall.on /\ cur = result.and
       /\ result.type = "throw" => cur = 0 /\ result.and = 0

C3_Witness ==
  /\ SyncCall
  /\ ncalls = 2
  /\ log[1].pass
  /\ ~log[2].pass
  /\ result.type = "throw"
  /\ cur = 0

\* the last matcher call raised because its verdict failed
VerdictFailed ==
  /\ SyncCall
  /\ ~Verdict.threw
  /\ Truthy(Verdict.value) # (On.kind = "Expectation")

\* the checker overrode nothing
NoOverride == Verdict.expected = <<>> /\ Verdict.props = NoProps

\* the text 'ExpectationError: Expected <description> <actual> <operator>
\* <expected>'
DefaultMessage(description, actual, operator, expected) ==
  [id |-> "text",
   parts |-> <<"ExpectationError: Expected", JoinItem(description),
               Json(actual), operator.chars,
               IF expected = NULL_VALUE THEN "" ELSE Json(expected)>>]

\* the operator of the last call: 'not ' when negated, and the humanized
\* name of the matcher
LastOperator ==
  [id |-> "text",
   chars |-> (IF On.kind = "ReversedExpectation" THEN <<"n", "o", "t", " ">>
              ELSE <<>>) \o makeHumanReadable(Chars(Ran.name))]

\* C4: when the verdict of a synchronous matcher fails and the checker has
\* overridden nothing, the error has the name ExpectationError, the
\* description given to expect, the operator ('not ' when negated, then the
\* humanized matcher name), the actual, the supplied argument as expected,
\* and the message 'ExpectationError: Expected <description> <actual>
\* <operator> <expected>'.
C4_FailureFields ==
  (VerdictFailed /\ NoOverride /\ Len(lastCall.args) <= 1) =>
    LET e == result.error
        expected == IF Len(lastCall.args) = 1 THEN lastCall.args[1]
                    ELSE NULL_VALUE
    IN  /\ result.type = "throw"
        /\ e.name = "ExpectationError"
        /\ e.description = heap[1]._description
        /\ e.operator = LastOperator
        /\ e.actual = heap[1]._actual
        /\ e.expected = expected
        /\ e.message = DefaultMessage(heap[1]._description, heap[1]._actual,
                                      LastOperator, expected)

\* C5: the negated expectation reached through .not holds the actual and
\* the description of the expectation it belongs to.
C5_NotKeepsDescription ==
  \A i \in DOMAIN heap :
    (heap[i].kind = "Expectation" /\ heap[i]._not # 0) =>
      /\ heap[heap[i]._not].kind = "ReversedExpectation"
      /\ heap[heap[i]._not]._actual = heap[i]._actual
      /\ heap[heap[i]._not]._description = heap[i]._description

\* C6 as stated: in a failure of a matcher called with no argument, expected
\* is NULL_VALUE and the message renders it as the empty string; in a failure
\* of a matcher called with an argument, expected is that argument unless the
\* checker called setExpected.
C6_Original ==
  VerdictFailed =>
    /\ Len(lastCall.args) = 0 =>
         /\ result.error.expected = NULL_VALUE
         /\ result.error.message.id = "text"
         /\ result.error.message.parts[5] = ""
    /\ (Len(lastCall.args) = 1 /\ Verdict.expected = <<>>) =>
         result.error.expected = lastCall.args[1]

\* the checker set expected, with setExpected or with an expected entry of
\* setErrorProperties
OverridesExpected ==
  Verdict.expected # <<>> \/ "expected" \in DOMAIN Verdict.props

\* C6 as amended: in a failure of a matcher called with no argument, expected
\* is NULL_VALUE, and the default message renders it as the empty string; in
\* a failure of a matcher called with exactly one argument (undefined and
\* null included), expected is that argument; both unless the checker
\* overrides expected with setExpected or setErrorProperties.
C6_ExpectedDefault ==
  (VerdictFailed /\ ~OverridesExpected) =>
    /\ Len(lastCall.args) = 0 =>
         /\ result.error.expected = NULL_VALUE
         /\ "message" \notin DOMAIN Verdict.props =>
              /\ result.error.message.id = "text"
              /\ result.error.message.parts[5] = ""
    /\ Len(lastCall.args) = 1 =>
         /\ result.error.expected = lastCall.args[1]
         /\ ("message" \notin DOMAIN Verdict.props
             /\ lastCall.args[1] # NULL_VALUE) =>
              result.error.message.parts[5] = Json(lastCall.args[1])

C6_Witness ==
  /\ VerdictFailed
  /\ lastCall.args = <<undefined>>
  /\ result.error.expected = undefined
  /\ result.error.message.parts[5] = "\"undefined\""

\* C7: a checker called through a matcher that was given no argument
\* receives NULL_VALUE as its second parameter.
C7_CheckerReceivesNullValue ==
  (SyncCall /\ Len(lastCall.args) = 0) => received.value = NULL_VALUE

Derived(i) ==
  /\ promises[i].parent # 0
  /\ promises[promises[i].parent].state # "pending"

\* what the checker of the call that derived promise i does with the settled
\* value and the argument of the call
PromisedVerdict(i) ==
  Call(promises[i].job.matcher, FullContext,
       promises[promises[i].parent].value, Arg(promises[i].job.args, 1))

\* the call that derived promise i was made on a PromisedExpectation
Positive(i) == heap[promises[i].job.on].kind = "PromisedExpectation"

\* C9: once the promise has settled with v and the reaction has run, the
\* promise of expect.promised(p).m(a) is fulfilled with v if checker(v, a) is
\* truthy and rejected otherwise, and the promise of
\* expect.promised(p).not.m(a) is fulfilled with v if checker(v, a) is falsy
\* and rejected otherwise.
C9_PromisedVerdict ==
  \A i \in DOMAIN promises :
    (Derived(i) /\ promises[i].state # "pending"
     /\ ~PromisedVerdict(i).threw) =>
      /\ (promises[i].state = "fulfilled") =
           (Truthy(PromisedVerdict(i).value) = Positive(i))
      /\ promises[i].state = "fulfilled" =>
           promises[i].value = promises[promises[i].parent].value

\* C10: a failed verdict of a matcher called on a promised expectation
\* rejects the returned promise with an ExpectationError that carries
\* operator, actual and expected.
C10_PromisedFailure ==
  \A i \in DOMAIN promises :
    (Derived(i) /\ promises[i].state # "pending"
     /\ ~PromisedVerdict(i).threw
     /\ Truthy(PromisedVerdict(i).value) # Positive(i)) =>
      /\ promises[i].state = "rejected"
      /\ promises[i].value.id = "error"
      /\ promises[i].value.name = "ExpectationError"
      /\ promises[i].value.operator # undefined
      /\ promises[i].value.actual = promises[promises[i].parent].value

\* promise i is the result of the second matcher of a chain
\* expect.promised(p).m1(a1).and.m2(a2)
SecondOfChain(i) ==
  /\ promises[i].parent # 0
  /\ promises[promises[i].parent].parent # 0
  /\ promises[promises[promises[i].parent].parent].parent = 0

\* the promise p of the chain that ends with promise i
Root(i) == promises[promises[i].parent].parent

\* what the checker of the matcher call that derived promise i does with the
\* value v
VerdictOn(i, v) ==
  Call(promises[i].job.matcher, FullContext, v, Arg(promises[i].job.args, 1))

\* whether the verdict of the matcher call that derived promise i passes on
\* the value v, with the polarity of the call
PassesOn(i, v) == Truthy(VerdictOn(i, v).value) = Positive(i)

\* C11: the promise returned by the second matcher of a promised chain,
\* whose checkers both return on the settled value, is fulfilled only when
\* the verdicts of both matchers pass on the value the
\* promise given to expect.promised settled with; a failure of the first
\* matcher is never turned into a fulfilled result by the second one.
C11_NoSwallowedFailure ==
  \A i \in DOMAIN promises :
    (SecondOfChain(i) /\ promises[i].state = "fulfilled"
     /\ ~VerdictOn(promises[i].parent, promises[Root(i)].value).threw
     /\ ~VerdictOn(i, promises[Root(i)].value).threw) =>
      /\ PassesOn(promises[i].parent, promises[Root(i)].value)
      /\ PassesOn(i, promises[Root(i)].value)

\* a value that can be called
Callable(v) ==
  v.id \in {"fnOk", "fnBoom", "fnThrowsA", "Error", "Object", "asyncFn"}

\* C12: expect.promised(v) throws a TypeError, and creates no expectation,
\* when v is falsy or has no callable then member, and returns a promised
\* expectation without throwing when v has a callable then.
C12_PromisedGuard ==
  lastCall.op = "promised" =>
    IF ~Truthy(lastCall.args[1])
       \/ ~Callable(Opt(lastCall.args[1], "then"))
    THEN /\ result.type = "throw"
         /\ result.error.name = "TypeError"
         /\ heap = <<>>
    ELSE /\ result.type # "throw"
         /\ heap # <<>>
         /\ heap[1].kind = "PromisedExpectation"

\* the negated kinds
Reversed(kind) ==
  kind \in {"ReversedExpectation", "ReversedPromisedExpectation"}

\* the function a kind applies its checkers with
Applier(kind) ==
  IF kind \in {"Expectation", "ReversedExpectation"} THEN "applyMatcher"
  ELSE "applyPromisedMatcher"

\* what the checker last registered under the name of the last call does
\* with the arguments of the call
RegisteredVerdict ==
  Call(registered[lastCall.name], FullContext, On._actual,
       Arg(lastCall.args, 1))

\* C13: every name that was registered is installed on the four kinds with
\* the checker of its most recent registration and the polarity of the
\* kind, and is never removed; a call of the name on an expectation of any
\* kind, created before or after the registration, runs that checker with
\* that polarity.
C13_LastRegistrationWins ==
  /\ \A n \in MethodNames, k \in Kinds :
       registered[n] # "" =>
         protos[k][n] = partial(Applier(k), n, registered[n], Reversed(k))
  /\ \A n \in MethodNames :
       DefaultRegistered[n] # "" => registered[n] # ""
  /\ (lastCall.op = "matcher" /\ registered[lastCall.name] # "") =>
       IF Sync(On)
       THEN /\ received.matcher = registered[lastCall.name]
            /\ received.actual = On._actual
            /\ ~RegisteredVerdict.threw =>
                 (result.type = "token") =
                   (Truthy(RegisteredVerdict.value) # Reversed(On.kind))
       ELSE /\ promises[result.promise].job.matcher =
                 registered[lastCall.name]
            /\ promises[result.promise].job.asNot = Reversed(On.kind)
  /\ \A i \in DOMAIN promises :
       promises[i].calls # <<>> =>
         /\ promises[i].calls[1].matcher = promises[i].job.matcher
         /\ LET r == Call(promises[i].job.matcher, {"setExpected"},
                          promises[promises[i].parent].value,
                          Arg(promises[i].job.args, 1))
            IN  ~r.threw =>
                  (promises[i].state = "fulfilled") =
                    (Truthy(r.value) # promises[i].job.asNot)

C13_Witness ==
  /\ SyncCall
  /\ lastCall.name = "toBe"
  /\ registered["toBe"] = "toBeString"
  /\ lastCall.on \in older
  /\ On.kind = "ReversedExpectation"
  /\ received.matcher = "toBeString"
  /\ result.type = "throw"

\* the last call was made through an alias
AliasCall == lastCall.op = "matcher" /\ aliased[lastCall.name] # ""

\* the method the aliased name has on the kind of the object of the last
\* call
Aliased == protos[On.kind][aliased[lastCall.name]]

\* C14: aliasMatcher(name, alias) changes nothing when name is not
\* registered, so a name that was neither registered nor made an alias of a
\* registered name is on no kind; a call of an alias has the outcome that
\* the call of the aliased name with the same arguments on the same object
\* has at that time, whatever was registered under the name since.
C14_AliasForwards ==
  /\ \A n \in MethodNames, k \in Kinds :
       (registered[n] = "" /\ aliased[n] = "") => protos[k][n] = NoMethod
  /\ AliasCall =>
       IF Sync(On)
       THEN LET out == applyMatcher(lastCall.on, On, Aliased.name,
                                    Aliased.matcher, Aliased.asNot,
                                    lastCall.args)
            IN  /\ result.type = out.type
                /\ result.and = out.and
                /\ result.error = out.error
                /\ received = out.call
       ELSE promises[result.promise].job =
              [name |-> Aliased.name, matcher |-> Aliased.matcher,
               asNot |-> Aliased.asNot, args |-> lastCall.args,
               on |-> lastCall.on]

C14_Witness ==
  /\ AliasCall
  /\ Sync(On)
  /\ aliased[lastCall.name] = "toStartWith"
  /\ registered["toStartWith"] = "toBe"
  /\ On.kind = "ReversedExpectation"
  /\ received.matcher = "toBe"
  /\ result.type = "token"

\* the checkers that are functions
IsFunction(matcher) == matcher # "five"

\* C15: a registration whose checker is not a function raises at the
\* registration call and leaves the registry as it was, so the checker is
\* on no kind.
C15_RegistrationValidates ==
  (lastCall.op = "addMatcher" /\ ~IsFunction(registered[lastCall.name])) =>
    /\ result.type = "throw"
    /\ \A k \in Kinds :
         protos[k][lastCall.name].matcher # registered[lastCall.name]

\* the messages of the misuse errors of toThrow and toBeAnInstanceOf
MisuseMessages ==
  [toThrow |-> Str("The value passed to expect() must be a function when toThrow is used."),
   toBeAnInstanceOf |->
     Str("toBeAnInstanceOf matcher requires a constructor function.")]

\* the last call is a misuse: toThrow on an actual that is not a function,
\* or toBeAnInstanceOf with an argument that is not a function
Misuse ==
  /\ SyncCall
  /\ \/ lastCall.name = "toThrow" /\ ~Callable(On._actual)
     \/ lastCall.name = "toBeAnInstanceOf"
        /\ ~Callable(Arg(lastCall.args, 1))

\* C16: toThrow on an actual that is not a function and toBeAnInstanceOf
\* with an argument that is not a function raise their misuse
\* ExpectationError through expect(x) and through expect(x).not alike, and
\* no verdict failure of these matchers has the message of a misuse error.
C16_MisuseIgnoresPolarity ==
  /\ Misuse =>
       /\ result.type = "throw"
       /\ result.error.name = "ExpectationError"
       /\ result.error.message = MisuseMessages[lastCall.name]
  /\ (VerdictFailed /\ lastCall.name \in DOMAIN MisuseMessages) =>
       /\ result.type = "throw"
       /\ result.error.message # MisuseMessages[lastCall.name]

C16_Witness ==
  /\ Misuse
  /\ lastCall.name = "toBeAnInstanceOf"
  /\ On.kind = "ReversedExpectation"
  /\ result.type = "throw"
  /\ result.error.message = MisuseMessages["toBeAnInstanceOf"]

\* a call expect(fn).toThrow(s) with a function fn and a string s
ToThrowString ==
  /\ SyncCall
  /\ lastCall.name = "toThrow"
  /\ On.kind = "Expectation"
  /\ Callable(On._actual)
  /\ Len(lastCall.args) = 1
  /\ IsString(lastCall.args[1])

\* C17: expect(fn).toThrow(s) passes iff calling fn throws an Error whose
\* message is strictly equal to s.
C17_ToThrowString ==
  ToThrowString =>
    (result.type = "token") =
      (/\ Invoke(On._actual).threw
       /\ IsError(Invoke(On._actual).value)
       /\ StrictEquals(Invoke(On._actual).value.message, lastCall.args[1]))

\* a call expect(x).toBeLike(y) or expect(x).not.toBeLike(y)
LikeCall == SyncCall /\ lastCall.name = "toBeLike" /\ Len(lastCall.args) = 1

\* C18: when neither operand is an object, toBeLike compares them with the
\* loose, coercing equality: expect(1).toBeLike('1'), expect(0).toBeLike(false)
\* and expect('').toBeLike(false) pass, and their negations raise.
C18_LooseFallback ==
  (/\ LikeCall
   /\ <<On._actual, lastCall.args[1]>> \in
        {<<V("1"), Str("1")>>, <<V("0"), false>>, <<Str(""), false>>})
    => (result.type = "token") = (On.kind = "Expectation")

\* a call expect(x).toHaveShape(s) or expect(x).not.toHaveShape(s) with a
\* shape s, and whether the shape accepted x
ShapeCall ==
  /\ SyncCall
  /\ lastCall.name = "toHaveShape"
  /\ Len(lastCall.args) = 1
  /\ isShape(lastCall.args[1])
Accepted == (result.type = "token") = (On.kind = "Expectation")

\* C19: an Object shape built from a descriptor has one sub-shape for every
\* own key of the descriptor, and it accepts a value iff the value's type
\* tag is 'object' and for every such key k the sub-shape accepts value[k],
\* undefined when the value has no k; keys of the value that the descriptor
\* does not have are ignored, and arrays, null and primitives are rejected.
C19_ObjectShape ==
  (ShapeCall /\ lastCall.args[1].checker.of = "Object") =>
    LET shapes == lastCall.args[1].checker.shapes
        value == On._actual
    IN  /\ Accepted =
             (/\ value.id = "object"
              /\ \A i \in DOMAIN shapes :
                   compareShape(shapes[i].checker,
                                IF shapes[i].key \in Keys(value)
                                THEN Get(value, shapes[i].key)
                                ELSE undefined) = true)
        /\ typeOf(value) # "object" => ~Accepted
        /\ \A d \in Descriptors :
             (lastCall.args[1] = InternalShapes_Object(d) /\ d # undefined)
               => {shapes[i].key : i \in DOMAIN shapes} = Keys(d)

C19_Witness ==
  /\ ShapeCall
  /\ lastCall.args[1] =
       InternalShapes_Object(Obj(21, <<<<"a", Number>>, <<"b", String>>>>))
  /\ On.kind = "Expectation"
  /\ Keys(On._actual) = {"a", "b", "c"}
  /\ result.type = "token"

\* C20: an ArrayStructure shape accepts a candidate only if the candidate is
\* an array and each of its items, at its index i, is accepted by shapes[i];
\* the positions a shorter candidate does not have are checked against
\* undefined.
C20_ArrayStructure ==
  (/\ ShapeCall
   /\ lastCall.args[1].checker.of = "ArrayStructure"
   /\ Accepted) =>
    LET types == lastCall.args[1].checker.types
        value == On._actual
    IN  /\ value.id = "array"
        /\ \A i \in DOMAIN value.items :
             /\ i \in DOMAIN types
             /\ compareShape(types[i], value.items[i]) = true
        /\ \A i \in DOMAIN types :
             i \notin DOMAIN value.items
               => compareShape(types[i], undefined) = true

\* C21: a scalar v in a descriptor is coerced to Literal(v) in all three
\* places: as the value of a key of an Object descriptor, as an entry of an
\* ArrayStructure list and as the sub-shape of Array; in each place the shape
\* accepts exactly the candidates whose corresponding property or element is
\* strictly identical to v.
C21_ScalarCoercion ==
  ShapeCall =>
    LET shape == lastCall.args[1]
        value == On._actual
    IN  /\ shape = InternalShapes_Object(Obj(22, <<<<"a", V("1")>>>>))
             => Accepted = (/\ typeOf(value) = "object"
                            /\ StrictEquals(Get(value, "a"), V("1")))
        /\ shape = InternalShapes_ArrayStructure(Arr(34, <<V("1")>>))
             => Accepted = (/\ typeOf(value) = "array"
                            /\ StrictEquals(ItemAt(value, 1), V("1")))
        /\ shape = InternalShapes_Array(V("1"))
             => Accepted = (/\ typeOf(value) = "array"
                            /\ \A i \in DOMAIN value.items :
                                 StrictEquals(value.items[i], V("1")))

\* C22: every ExpectationError the library raises, from a failed verdict,
\* from expect.fail or from a misuse of toThrow or toBeAnInstanceOf, has its
\* operator populated, and the errors of expect.fail and of a misuse have
\* their actual and expected populated too.
C22_StructuredData ==
  (/\ result.type = "throw"
   /\ IsError(result.error)
   /\ result.error.name = "ExpectationError") =>
    /\ result.error.operator # undefined
    /\ (lastCall.op = "fail" \/ Misuse) =>
         /\ result.error.actual # undefined
         /\ result.error.expected # undefined

\* C23: deepEqual(a, a) is true for every value a: expect(a).toBeLike(a)
\* passes and expect(a).not.toBeLike(a) raises.
C23_Reflexive ==
  (LikeCall /\ lastCall.args[1] = On._actual) => Accepted

\* C24: two distinct arguments objects that hold pairwise deep-equal
\* elements in the same order are deepEqual: expect(a).toBeLike(b) passes
\* and expect(a).not.toBeLike(b) raises.
C24_ArgumentsAsArrays ==
  (/\ LikeCall
   /\ typeOf(On._actual) = "arguments"
   /\ typeOf(lastCall.args[1]) = "arguments"
   /\ On._actual.ref # lastCall.args[1].ref
   /\ Len(On._actual.items) = Len(lastCall.args[1].items)
   /\ \A i \in DOMAIN On._actual.items :
        deepEqual(On._actual.items[i], lastCall.args[1].items[i]))
    => Accepted

\* C25: typeOf returns the same tag for the same value on every call,
\* whether the class string was in the cache or is cached by the call; the
\* cache only gains entries, one per class string not seen before, and no
\* entry, built-in or cached, is changed or removed.
C25_StableTags ==
  /\ \A i, j \in DOMAIN typed :
       typed[i].item = typed[j].item => typed[i].tag = typed[j].tag
  /\ \A i \in DOMAIN typed :
       /\ typed[i].tag = typeOf(typed[i].item)
       /\ typed[i].item \notin {undefined, null} =>
            /\ ClassOf(typed[i].item) \in DOMAIN cache
            /\ cache[ClassOf(typed[i].item)] = typed[i].tag
  /\ \A c \in DOMAIN knownTypes :
       c \in DOMAIN cache /\ cache[c] = knownTypes[c]
  /\ DOMAIN cache =
       DOMAIN knownTypes
         \cup {ClassOf(typed[i].item) : i \in {k \in DOMAIN typed :
                                                 ~typed[k].hit}}

C25_Witness ==
  \E i, j \in DOMAIN typed :
    /\ i < j
    /\ typed[i].item = typed[j].item
    /\ ~typed[i].hit
    /\ typed[j].hit
    /\ typed[i].tag = "error"
    /\ typed[j].tag = "error"
    /\ Cardinality(DOMAIN cache) = Cardinality(DOMAIN knownTypes) + 2

\* the last call ran a checker that may set error properties and returned
\* its verdict, and the fields applyMatcher gives the failure by default
PropsCall ==
  /\ SyncCall
  /\ Ran.matcher \in {"setsErrorProperties", "toThrow"}
  /\ ~Verdict.threw
DefaultFields ==
  [description |-> On._description,
   operator |-> LastOperator,
   actual |-> On._actual,
   expected |-> IF Verdict.expected # <<>> THEN Verdict.expected[1]
                ELSE IF Len(lastCall.args) = 1 THEN lastCall.args[1]
                ELSE NULL_VALUE]
FieldsFromProps ==
  /\ result.type = "throw"
  /\ result.error.name = "ExpectationError"
  /\ \A k \in DOMAIN DefaultFields :
       result.error[k] = IF k \in DOMAIN Verdict.props THEN Verdict.props[k]
                         ELSE DefaultFields[k]
RenderedMessage ==
  DefaultMessage(result.error.description, result.error.actual,
                 result.error.operator, result.error.expected)

\* C26 as stated: when a checker calls setErrorProperties(props) and its
\* verdict fails, every field named in props, the message included, has the
\* value from props in the failure, and every field not named keeps its
\* default; when the verdict passes, props have no effect.
C26_Original ==
  PropsCall =>
    IF VerdictFailed
    THEN /\ FieldsFromProps
         /\ result.error.message =
              IF "message" \in DOMAIN Verdict.props
              THEN Verdict.props.message ELSE RenderedMessage
    ELSE result = [NoResult EXCEPT !.type = "token", !.and = lastCall.on]

\* C26 as amended: the description, operator, actual and expected named in
\* props have the value from props and the others keep their default; the
\* message is the one from props when props name a truthy message, and the
\* default text rendered from the failure's fields otherwise; when the
\* verdict passes, props have no effect.
C26_PropsOverride ==
  PropsCall =>
    IF VerdictFailed
    THEN /\ FieldsFromProps
         /\ result.error.message =
              IF "message" \in DOMAIN Verdict.props
                 /\ Truthy(Verdict.props.message)
              THEN Verdict.props.message ELSE RenderedMessage
    ELSE result = [NoResult EXCEPT !.type = "token", !.and = lastCall.on]

C26_Witness ==
  /\ PropsCall
  /\ VerdictFailed
  /\ Ran.matcher = "setsErrorProperties"
  /\ DOMAIN Verdict.props = {"description", "operator"}
  /\ On._description = Str("my-desc")
  /\ result.error.description = Str("d")
  /\ result.error.operator = Operator("toBe", FALSE)
  /\ result.error.actual = false

\* a call expect(x).toHaveShape(d) or expect(x).not.toHaveShape(d) with a
\* raw descriptor d, an object or an array that is not a shape
RawShapeCall ==
  /\ SyncCall
  /\ lastCall.name = "toHaveShape"
  /\ Len(lastCall.args) = 1
  /\ ~isShape(lastCall.args[1])
  /\ typeOf(lastCall.args[1]) \in {"object", "array"}

\* C27: building a shape from a descriptor and comparing with a raw
\* descriptor leave the descriptor and every descriptor nested in it
\* unchanged: after toHaveShape(d) the descriptor is the one that was
\* passed, and the expected of a failure is the JSON copy of that one.
C27_DescriptorUnchanged ==
  RawShapeCall =>
    /\ Mutated(lastCall.args[1]) = lastCall.args[1]
    /\ (result.type = "throw" /\ result.error.name = "ExpectationError")
         => On.kind = "ReversedExpectation"
            \/ result.error.expected = Revive(lastCall.args[1])

\* C28: compareShape(shape, value) returns a boolean and never throws, for
\* a shape, a raw object, a raw array (the empty one included), a scalar and
\* a falsy value; toHaveShape raises nothing but the ExpectationError of a
\* failed verdict, and an argument that is not a valid shape gives false.
C28_CompareNeverThrows ==
  (SyncCall /\ lastCall.name = "toHaveShape" /\ Len(lastCall.args) = 1) =>
    LET total(r) ==
          /\ r \in {true, false}
          /\ result.type = "throw" =>
               result.error.name = "ExpectationError"
          /\ (/\ ~isShape(lastCall.args[1])
              /\ typeOf(lastCall.args[1]) \notin {"object", "array"})
               => r = false
    IN  total(compareShape(lastCall.args[1], On._actual))

\* a step of a chain: a matcher call, or .and on the token it returned
ChainStep ==
  \/ lastCall'.op = "matcher" /\ ncalls' = ncalls + 1
  \/ /\ result.type = "token"
     /\ result' = NoResult
     /\ log' = log
     /\ heap' = heap
     /\ ncalls' = ncalls

\* C29: the token of a successful matcher called on a negated expectation
\* has .and pointing to that same negated expectation, every matcher of
\* expect(x).not.m1(a1).and.m2(a2) is evaluated with inverted polarity, and
\* no step of a chain leads from the negated expectation to the positive one.
C29_PolarityKept ==
  /\ [](\A i \in DOMAIN heap :
          heap[i].kind = "ReversedExpectation" => heap[i]._not = 0)
  /\ []((SyncCall /\ On.kind = "ReversedExpectation") =>
          /\ Ran.asNot
          /\ ~Verdict.threw =>
               (result.type = "token") = ~Truthy(Verdict.value)
          /\ result.type = "token" =>
               /\ result.and = lastCall.on
               /\ cur = lastCall.on
               /\ heap[result.and].kind = "ReversedExpectation")
  /\ [][(/\ cur # 0
         /\ heap[cur].kind = "ReversedExpectation"
         /\ ChainStep)
          => \/ cur' = 0 /\ result'.type = "throw"
             \/ cur' = cur /\ heap'[cur'].kind = "ReversedExpectation"]_vars

C29_Witness ==
  /\ SyncCall
  /\ ncalls = 2
  /\ On.kind = "ReversedExpectation"
  /\ log[1].pass
  /\ ~Verdict.threw
  /\ Truthy(Verdict.value)
  /\ result.type = "throw"

\* promise i was returned by a matcher call on a promised expectation
Returned_by_call(i) == promises[i].parent # 0

\* C30: a matcher called on a promised expectation does not invoke the
\* checker and raises nothing during the call; the checker runs only after
\* the wrapped promise has settled, once per matcher call, on the settled
\* value, its outcome is delivered through the returned promise alone, and
\* the matcher calls made on one promised expectation are all evaluated
\* against the same settled value.
C30_PromisedDelivery ==
  /\ (lastCall.op = "matcher" /\ ~Sync(heap[lastCall.on])) =>
       /\ result.type = "promise"
       /\ result.promise \in DOMAIN promises
       /\ Returned_by_call(result.promise)
       /\ promises[result.promise].parent = heap[lastCall.on]._promise
       /\ received = NoReceived
       /\ log = <<>>
  /\ \A i \in DOMAIN promises :
       Returned_by_call(i) =>
         /\ promises[i].parent = heap[promises[i].job.on]._promise
         /\ promises[i].state = "pending" => promises[i].calls = <<>>
         /\ promises[i].state # "pending" =>
              /\ promises[promises[i].parent].state # "pending"
              /\ Len(promises[i].calls) = 1
              /\ promises[i].calls[1].actual =
                   promises[promises[i].parent].value
              /\ promises[i].calls[1].matcher = promises[i].job.matcher
              /\ promises[i].state = "rejected" =>
                   IsError(promises[i].value)
  /\ \A i, j \in DOMAIN promises :
       (/\ Returned_by_call(i) /\ Returned_by_call(j)
        /\ promises[i].job.on = promises[j].job.on
        /\ promises[i].state # "pending"
        /\ promises[j].state # "pending")
         => promises[i].calls[1].actual = promises[j].calls[1].actual

C30_Witness ==
  \E i, j \in DOMAIN promises :
    /\ Returned_by_call(i) /\ Returned_by_call(j)
    /\ promises[i].job.on = promises[j].job.on
    /\ promises[i].job.matcher # promises[j].job.matcher
    /\ promises[i].state = "fulfilled"
    /\ promises[j].state = "rejected"
    /\ promises[i].calls[1].actual = promises[j].calls[1].actual
    /\ lastCall.op = "matcher"
    /\ result.type = "promise"

=============================================================================
